---- MODULE Spec2Model ----
(***************************************************************************)
(* disaster-tracker: the calendar-event reconciler (CalendarTracker), the  *)
(* hazard correlator (DisasterTracker) and the request handlers that drive *)
(* them, over the document store (EventStorage).                           *)
(*                                                                         *)
(* Floating point degrees are modelled in fixed point: coordinates are     *)
(* integers in hundredths of a degree, angles in radians times Scale.      *)
(***************************************************************************)
EXTENDS Integers, Sequences, FiniteSets, TLC

VARIABLES events, disasters, redis, last, geo, pipe, tasks, worker

vars == <<events, disasters, redis, last, geo, pipe, tasks, worker>>

----------------------------------------------------------------------------
(* app/utils.py: spherical destination point, in fixed point               *)

\* resolution of the fixed-point stand-in for Python floats (radians * Scale)
Scale == 10000
\* math.pi * Scale
PiFx == 31416
HalfPiFx == 15708
\* hundredths of a degree per degree
DegUnit == 100

EARTH_RADIUS_KM == 6371

FxMul(a, b) == (a * b) \div Scale

\* Taylor series of sin on [-pi/2, pi/2]
SinSmall(x) ==
    LET x2 == FxMul(x, x)
        t3 == FxMul(x2, x) \div 6
        t5 == FxMul(t3, x2) \div 20
        t7 == FxMul(t5, x2) \div 42
        t9 == FxMul(t7, x2) \div 72
    IN  x - t3 + t5 - t7 + t9

Sin(x) ==
    LET y == ((x + PiFx) % (2 * PiFx)) - PiFx
    IN  IF y > HalfPiFx THEN SinSmall(PiFx - y)
        ELSE IF y < -HalfPiFx THEN SinSmall(-PiFx - y)
        ELSE SinSmall(y)

Cos(x) == Sin(x + HalfPiFx)

RECURSIVE AsinBisect(_, _, _)
AsinBisect(lo, hi, v) ==
    IF hi - lo <= 1 THEN lo
    ELSE LET mid == (lo + hi) \div 2
             up == SinSmall(mid) <= v
         IN  AsinBisect(IF up THEN mid ELSE lo, IF up THEN hi ELSE mid, v)

\* math.asin: the angle in [-pi/2, pi/2] whose sine is v
Asin(v) == AsinBisect(-HalfPiFx, HalfPiFx, v)

RECURSIVE AtanBisect(_, _, _, _)
AtanBisect(lo, hi, y, x) ==
    IF hi - lo <= 1 THEN lo
    ELSE LET mid == (lo + hi) \div 2
             up == x * SinSmall(mid) <= y * Cos(mid)
         IN  AtanBisect(IF up THEN mid ELSE lo, IF up THEN hi ELSE mid, y, x)

\* math.atan2(y, x): the angle of the direction (x, y), in (-pi, pi]
Atan2(y, x) ==
    IF x > 0 THEN AtanBisect(-HalfPiFx, HalfPiFx, y, x)
    ELSE IF x < 0 THEN
        IF y >= 0 THEN AtanBisect(-HalfPiFx, HalfPiFx, -y, -x) + PiFx
        ELSE AtanBisect(-HalfPiFx, HalfPiFx, -y, -x) - PiFx
    ELSE IF y > 0 THEN HalfPiFx
    ELSE IF y < 0 THEN -HalfPiFx
    ELSE 0

\* math.radians of hundredths of a degree; math.degrees back to hundredths
Radians(cdeg) == (cdeg * PiFx) \div (180 * DegUnit)
Degrees(rad) == (rad * 180 * DegUnit) \div PiFx

\* (mutation of calc_destination_point_by: the bearing is used as given, in
\* degrees, where the trigonometry wants radians)
calc_destination_point_by_degrees(point1, d, bearing) ==
    LET lat1 == Radians(point1[1])
        lon1 == Radians(point1[2])
        theta == bearing * DegUnit
        dR == (d * Scale) \div EARTH_RADIUS_KM
        lat2 == Asin(FxMul(Sin(lat1), Cos(dR))
                     + FxMul(FxMul(Cos(lat1), Sin(dR)), Cos(theta)))
        lon2 == lon1 + Atan2(FxMul(FxMul(Sin(theta), Sin(dR)), Cos(lat1)),
                             Cos(dR) - FxMul(Sin(lat1), Sin(lat2)))
    IN  <<Degrees(lat2),
          ((Degrees(lon2) + 540 * DegUnit) % (360 * DegUnit)) - 180 * DegUnit>>

\* calc_destination_point_by(point1, d, bearing): point1 = <<lat, lon>> in
\* hundredths of a degree, d in km, bearing in whole degrees
calc_destination_point_by(point1, d, bearing) ==
    LET lat1 == Radians(point1[1])
        lon1 == Radians(point1[2])
        theta == Radians(bearing * DegUnit)
        dR == (d * Scale) \div EARTH_RADIUS_KM
        lat2 == Asin(FxMul(Sin(lat1), Cos(dR))
                     + FxMul(FxMul(Cos(lat1), Sin(dR)), Cos(theta)))
        lon2 == lon1 + Atan2(FxMul(FxMul(Sin(theta), Sin(dR)), Cos(lat1)),
                             Cos(dR) - FxMul(Sin(lat1), Sin(lat2)))
    IN  <<Degrees(lat2),
          ((Degrees(lon2) + 540 * DegUnit) % (360 * DegUnit)) - 180 * DegUnit>>

----------------------------------------------------------------------------
(* app/pipeline.py: Result and Option values.  An exception that leaves a  *)
(* function instead of being returned is the pseudo-result Raise.          *)

Ok(v) == [kind |-> "Ok", value |-> v]
Err(e) == [kind |-> "Err", error |-> e]
Raise(e) == [kind |-> "Raise", error |-> e]
Something(v) == [opt |-> "Something", value |-> v]
Nothing == [opt |-> "Nothing"]

IsOk(r) == r.kind = "Ok"
IsSomething(o) == o.opt = "Something"

\* storage collaborator outcomes drawn by the actions: the round trip works,
\* or the driver reports a PyMongoError
Faults == {"none", "PyMongoError"}

\* the empty collection, the empty dict
EmptyColl == [k \in {} |-> k]

\* the element of a one-element set; {F(v) : v \in {e}} binds v to the value
\* of e once, where a LET would evaluate e at every use of v
Only(S) == CHOOSE x \in S : TRUE

----------------------------------------------------------------------------
(* the data of the model                                                   *)

MaxEvents == 2
MaxSummaries == 2

EventIds == 1..MaxEvents
Summaries == 1..MaxSummaries

\* event coordinates in hundredths of a degree: New York, and a point near
\* the antimeridian
NewYork == <<4000, -7400>>
NearAntimeridian == <<0, 17900>>
Points == {NewYork, NearAntimeridian}

\* where an event takes place: its location text and the coordinates the
\* geocoder gives for it
PointOf(id) == IF id % 2 = 1 THEN NewYork ELSE NearAntimeridian

\* app/calendar_events.py: CalendarEvent (the pydantic model)
CalendarEvent ==
    {[id |-> i, summary |-> s, location |-> "loc", coordinates |-> PointOf(i),
      creator |-> "user@mail", start |-> 1, end |-> 2, link |-> "link",
      tracked |-> t] : i \in EventIds, s \in Summaries, t \in BOOLEAN}

CalendarEventFields ==
    {"_id", "summary", "location", "coordinates", "creator", "start", "end",
     "link", "tracked"}

\* ResultModel.to_(dict): model_dump(by_alias=True), the id under its alias
to_dict(m) ==
    [_id |-> m.id, summary |-> m.summary, location |-> m.location,
     coordinates |-> m.coordinates, creator |-> m.creator, start |-> m.start,
     end |-> m.end, link |-> m.link, tracked |-> m.tracked]

\* ResultModel.from_(dict) for CalendarEvent: model_validate; a document that
\* lacks a required field is a ValidationError
CalendarEvent_from_(doc) ==
    IF (CalendarEventFields \ {"tracked"}) \subseteq DOMAIN doc
    THEN Ok([id |-> doc._id, summary |-> doc.summary, location |-> doc.location,
             coordinates |-> doc.coordinates, creator |-> doc.creator,
             start |-> doc.start, end |-> doc.end, link |-> doc.link,
             tracked |-> IF "tracked" \in DOMAIN doc THEN doc.tracked ELSE FALSE])
    ELSE Err("ValidationError")

\* (mutation of update_tracked: the copy is made without the field)
update_tracked_dropped(m, t) == Ok(m)

\* ResultModel.update(**fields) with fields = {tracked}: a copy with the field set
update_tracked(m, t) == Ok([m EXCEPT !.tracked = t])

----------------------------------------------------------------------------
(* app/db.py: EventStorage over one collection, a function from _id to the *)
(* stored document.  Every operation yields [coll, res].                   *)

\* what the driver's insert_many does with the items it is handed: every item
\* must be a document (a mapping), anything else is a TypeError raised while
\* the batch is built, before any round trip
insert_many(coll, items, f) ==
    IF \E i \in 1..Len(items) : items[i].py # "dict"
    THEN [coll |-> coll, res |-> Raise("TypeError")]
    ELSE IF f # "none" \/ \E i \in 1..Len(items) : items[i].val._id \in DOMAIN coll
    THEN [coll |-> coll, res |-> Err("PyMongoError")]
    ELSE [coll |-> [k \in DOMAIN coll \cup {items[i].val._id : i \in 1..Len(items)} |->
                      IF k \in DOMAIN coll THEN coll[k]
                      ELSE items[CHOOSE i \in 1..Len(items) : items[i].val._id = k].val],
          res |-> Ok(TRUE)]

\* iterating a pydantic model yields its (field, value) pairs
model_items(m) ==
    <<[py |-> "tuple", val |-> <<"id", m.id>>],
      [py |-> "tuple", val |-> <<"summary", m.summary>>],
      [py |-> "tuple", val |-> <<"location", m.location>>],
      [py |-> "tuple", val |-> <<"coordinates", m.coordinates>>],
      [py |-> "tuple", val |-> <<"creator", m.creator>>],
      [py |-> "tuple", val |-> <<"start", m.start>>],
      [py |-> "tuple", val |-> <<"end", m.end>>],
      [py |-> "tuple", val |-> <<"link", m.link>>],
      [py |-> "tuple", val |-> <<"tracked", m.tracked>>]>>

\* EventStorage.insert(var): var is a Python value [py, val]; a dict goes to
\* insert_one, any other iterable to insert_many, the rest is a TypeError.
\* Only PyMongoError and AttributeError are turned into Err.
EventStorage_insert(coll, var, f) ==
    IF var.py = "dict" THEN
        IF f # "none" \/ var.val._id \in DOMAIN coll
        THEN [coll |-> coll, res |-> Err("PyMongoError")]
        ELSE [coll |-> [k \in DOMAIN coll \cup {var.val._id} |->
                          IF k = var.val._id THEN var.val ELSE coll[k]],
              res |-> Ok(TRUE)]
    ELSE IF var.py = "CalendarEvent" THEN insert_many(coll, model_items(var.val), f)
    ELSE IF var.py \in {"list", "tuple"} THEN insert_many(coll, var.val, f)
    ELSE [coll |-> coll, res |-> Raise("TypeError")]

\* EventStorage.delete(_id): delete_one, acknowledged whether or not it matched
EventStorage_delete(coll, id, f) ==
    IF f # "none" THEN [coll |-> coll, res |-> Err("PyMongoError")]
    ELSE [coll |-> [k \in DOMAIN coll \ {id} |-> coll[k]], res |-> Ok(TRUE)]

\* EventStorage.update_by_id(_id, **fields): update_one($set, upsert=True),
\* returns matched_count
EventStorage_update_by_id(coll, id, fields, f) ==
    IF f # "none" THEN [coll |-> coll, res |-> Err("PyMongoError")]
    ELSE LET old == IF id \in DOMAIN coll THEN coll[id] ELSE [_id |-> id]
             doc == [n \in DOMAIN old \cup DOMAIN fields |->
                       IF n \in DOMAIN fields THEN fields[n] ELSE old[n]]
         IN  [coll |-> [k \in DOMAIN coll \cup {id} |->
                          IF k = id THEN doc ELSE coll[k]],
              res |-> Ok(IF id \in DOMAIN coll THEN 1 ELSE 0)]

\* EventStorage.get_by_id(_id): find_one
EventStorage_get_by_id(coll, id, f) ==
    IF f # "none" THEN Err("PyMongoError")
    ELSE IF id \in DOMAIN coll THEN Ok(Something(coll[id]))
    ELSE Ok(Nothing)

----------------------------------------------------------------------------
(* app/calendar_events.py: CalendarTracker over the calendar_events        *)
(* collection                                                              *)

\* create_event(event): hands the model object itself to EventStorage.insert
create_event(coll, event, f) ==
    EventStorage_insert(coll, [py |-> "CalendarEvent", val |-> event], f)

\* create_or_update_event(event): update_by_id(**event.to_(dict).ok())
create_or_update_event(coll, event, f) ==
    LET d == to_dict(event)
    IN  EventStorage_update_by_id(coll, d._id,
                                  [n \in DOMAIN d \ {"_id"} |-> d[n]], f)

\* delete_event(event_id)
delete_event(coll, id, f) == EventStorage_delete(coll, id, f)

\* save_as_tracked(event): event.update(tracked=True).then_async(create_or_update_event)
save_as_tracked(coll, event, f) ==
    LET u == update_tracked(event, TRUE)
    IN  IF IsOk(u) THEN create_or_update_event(coll, u.value, f)
        ELSE [coll |-> coll, res |-> u]

\* get_event(event_id)
get_event(coll, id, f) ==
    LET got == EventStorage_get_by_id(coll, id, f)
    IN  IF IsOk(got) /\ IsSomething(got.value)
        THEN LET ev == CalendarEvent_from_(got.value.value)
             IN  IF IsOk(ev) THEN Ok(Something(ev.value)) ELSE ev
        ELSE got

\* (mutation of merged_tracked: the incoming value wins)
merged_tracked_incoming(updated, stored) == updated.tracked

\* the tracked value sync_event gives the record it writes over a stored one
merged_tracked(updated, stored) == stored.tracked

\* (mutation of sync_event_after_lookup: the record is looked up again at
\* the write, in one step with it)
sync_event_after_lookup_atomic(coll, updated, got, fw) ==
    LET now == get_event(coll, updated.id, "none")
    IN  IF IsOk(got) /\ IsSomething(now.value) THEN
            LET ready == update_tracked(updated, merged_tracked(updated, now.value.value)).value
                w == create_or_update_event(coll, ready, fw)
            IN  IF IsOk(w.res) THEN [coll |-> w.coll, res |-> Ok(ready), path |-> "upsert"]
                ELSE [coll |-> w.coll, res |-> w.res, path |-> "upsert"]
        ELSE IF IsOk(got) THEN
            LET w == create_event(coll, updated, fw)
            IN  IF IsOk(w.res) THEN [coll |-> w.coll, res |-> Ok(updated), path |-> "insert"]
                ELSE [coll |-> w.coll, res |-> w.res, path |-> "insert"]
        ELSE [coll |-> coll, res |-> got, path |-> "none"]

\* sync_event(updated) from the return of its lookup on: got is what
\* get_event returned, coll is the collection as it is when the write is
\* made, fw is the outcome of the write; path names the write it chose
sync_event_after_lookup(coll, updated, got, fw) ==
    IF IsOk(got) /\ IsSomething(got.value) THEN
        LET ready == update_tracked(updated, merged_tracked(updated, got.value.value)).value
            w == create_or_update_event(coll, ready, fw)
        IN  IF IsOk(w.res) THEN [coll |-> w.coll, res |-> Ok(ready), path |-> "upsert"]
            ELSE [coll |-> w.coll, res |-> w.res, path |-> "upsert"]
    ELSE IF IsOk(got) THEN
        LET w == create_event(coll, updated, fw)
        IN  IF IsOk(w.res) THEN [coll |-> w.coll, res |-> Ok(updated), path |-> "insert"]
            ELSE [coll |-> w.coll, res |-> w.res, path |-> "insert"]
    ELSE [coll |-> coll, res |-> got, path |-> "none"]

\* sync_event(updated) with nothing else running between its lookup and its
\* write; fl and fw are the outcomes of the lookup and of the write
sync_event(coll, updated, fl, fw) ==
    sync_event_after_lookup(coll, updated, get_event(coll, updated.id, fl), fw)

----------------------------------------------------------------------------
(* app/pipeline.py: the two pipeline steps the trackers use, over the      *)
(* sequence a cursor yields                                                *)

\* filter_map(lambda doc: Model.from_(doc).ok()): Err.ok() is None and is
\* dropped, Ok(model).ok() is the model and is kept, in order
RECURSIVE drop_none(_)
drop_none(results) ==
    IF results = <<>> THEN <<>>
    ELSE IF IsOk(Head(results)) THEN <<Head(results).value>> \o drop_none(Tail(results))
    ELSE drop_none(Tail(results))

filter_map_ok(results) == drop_none(results)

\* collect_as(tuple): Nothing for an empty collection
collect_as(items) == IF Len(items) > 0 THEN Something(items) ELSE Nothing

----------------------------------------------------------------------------
(* app/pipeline.py: then and then_async of Ok, Err, Something and Nothing. *)
(* A function handed to then is a table from the values to what it         *)
(* returns; `invoked` tells whether the method called it.  then_async is   *)
(* given by what awaiting its coroutine gives.                             *)

ChainValues == {0, 1}

\* what a function of a chain returns: a Result or an Option
ChainOutcomes ==
    {Ok(0), Ok(1), Err("first error"), Err("second error"), Something(1), Nothing}

ChainFuncs == [ChainValues -> ChainOutcomes]

\* Ok.then(func)
Ok_then(self, func) == [res |-> func[self.value], invoked |-> TRUE]

\* Ok.then_async(_func)
Ok_then_async(self, func) == [res |-> func[self.value], invoked |-> TRUE]

\* (mutation of Err_then: the function is called before self is returned)
Err_then_invoking(self, func) == [res |-> self, invoked |-> TRUE]

\* Err.then(_func)
Err_then(self, func) == [res |-> self, invoked |-> FALSE]

\* Err.then_async(_func)
Err_then_async(self, func) == [res |-> self, invoked |-> FALSE]

\* Something.then(func)
Something_then(self, func) == [res |-> func[self.value], invoked |-> TRUE]

\* Something.then_async(_func)
Something_then_async(self, func) == [res |-> func[self.value], invoked |-> TRUE]

\* Nothing.then(_func)
Nothing_then(self, func) == [res |-> self, invoked |-> FALSE]

\* Nothing.then_async(_func)
Nothing_then_async(self, func) == [res |-> self, invoked |-> FALSE]

\* r.then(func) or await r.then_async(func): the method of the class of r
then(r, func, async) ==
    IF "kind" \in DOMAIN r
    THEN IF r.kind = "Ok"
         THEN IF async THEN Ok_then_async(r, func) ELSE Ok_then(r, func)
         ELSE IF async THEN Err_then_async(r, func) ELSE Err_then(r, func)
    ELSE IF r.opt = "Something"
         THEN IF async THEN Something_then_async(r, func) ELSE Something_then(r, func)
         ELSE IF async THEN Nothing_then_async(r, func) ELSE Nothing_then(r, func)

----------------------------------------------------------------------------
(* app/pipeline.py: as_result and as_async_result.  The wrapped function   *)
(* either returns a value or raises an exception of some class; an except  *)
(* clause takes an exception of a class it names or of a subclass.         *)

\* the classes of the exceptions met, each with its base class
ExceptionBase ==
    [BaseException |-> "object", Exception |-> "BaseException",
     KeyboardInterrupt |-> "BaseException", ValueError |-> "Exception",
     TypeError |-> "Exception", UnwrapError |-> "Exception"]

\* the classes a wrapped function raises
RaisedKinds == {"ValueError", "TypeError", "UnwrapError", "KeyboardInterrupt"}

\* the sets of classes given to as_result(...) and as_async_result(...)
DeclaredSets == SUBSET {"ValueError", "TypeError", "Exception"}

\* what a call of the wrapped function does
FuncOutcomes ==
    {[returns |-> v] : v \in ChainValues} \cup {[raises |-> k] : k \in RaisedKinds}

\* issubclass(kind, class_)
RECURSIVE issubclass(_, _)
issubclass(kind, class_) ==
    IF kind = class_ THEN TRUE
    ELSE IF kind \notin DOMAIN ExceptionBase THEN FALSE
    ELSE issubclass(ExceptionBase[kind], class_)

\* `except classes as e` takes an exception of the class kind
caught_by(kind, classes) == \E c \in classes : issubclass(kind, c)

\* the classes of `except exceptions or Exception`: an empty tuple is falsy
exceptions_or_Exception(exceptions) ==
    IF exceptions = {} THEN {"Exception"} ELSE exceptions

\* as_result(*exceptions)(func)(): the first clause is
\* `except exceptions or Exception`, the second `except UnwrapError`
as_result(exceptions, outcome) ==
    IF "returns" \in DOMAIN outcome THEN Ok(outcome.returns)
    ELSE IF caught_by(outcome.raises, exceptions_or_Exception(exceptions))
    THEN Err(outcome.raises)
    ELSE IF caught_by(outcome.raises, {"UnwrapError"}) THEN Err(outcome.raises)
    ELSE Raise(outcome.raises)

\* await as_async_result(*exceptions)(func)(): the one clause is
\* `except exceptions or Exception`
as_async_result(exceptions, outcome) ==
    IF "returns" \in DOMAIN outcome THEN Ok(outcome.returns)
    ELSE IF caught_by(outcome.raises, exceptions_or_Exception(exceptions))
    THEN Err(outcome.raises)
    ELSE Raise(outcome.raises)

\* call_as_result(*exceptions, func=func)
call_as_result(exceptions, outcome) == as_result(exceptions, outcome)

\* await call_as_async_result(*exceptions, func=func)
call_as_async_result(exceptions, outcome) == as_async_result(exceptions, outcome)

----------------------------------------------------------------------------
(* app/pipeline.py: Pipeline and AsyncPipeline over Python values.  A      *)
(* value is [py |-> its type, val |-> its content], or one of Ok, Err,     *)
(* Something and Nothing.                                                  *)

PyNone == [py |-> "NoneType"]
PyInt(n) == [py |-> "int", val |-> n]
PyBool(b) == [py |-> "bool", val |-> b]
PyStr(text) == [py |-> "str", val |-> text]
PyList(items) == [py |-> "list", val |-> items]

\* bool(value): Ok, Err, Something and Nothing define neither __bool__ nor
\* __len__, so an instance of them is true
truthy(value) ==
    IF "py" \notin DOMAIN value THEN TRUE
    ELSE CASE value.py = "NoneType" -> FALSE
           [] value.py = "int" -> value.val # 0
           [] value.py = "bool" -> value.val
           [] value.py = "str" -> value.val # ""
           [] value.py \in {"list", "tuple"} -> Len(value.val) > 0
           [] value.py = "set" -> value.val # {}

\* hash(value) is defined: not for a list or a set; Ok, Err and Something
\* hash what they hold
RECURSIVE hashable(_)
hashable(value) ==
    IF "kind" \in DOMAIN value
    THEN IF value.kind = "Ok" THEN hashable(value.value) ELSE TRUE
    ELSE IF "opt" \in DOMAIN value
    THEN IF value.opt = "Something" THEN hashable(value.value) ELSE TRUE
    ELSE value.py \in {"NoneType", "int", "bool", "str"}

\* a == b for two values: a bool is an int, False == 0 and True == 1
py_eq(a, b) ==
    IF "py" \in DOMAIN a /\ "py" \in DOMAIN b
          /\ a.py \in {"int", "bool"} /\ b.py \in {"int", "bool"}
    THEN (IF a.py = "bool" THEN (IF a.val THEN 1 ELSE 0) ELSE a.val)
            = (IF b.py = "bool" THEN (IF b.val THEN 1 ELSE 0) ELSE b.val)
    ELSE a = b

\* set(iterable): of equal items the first one stays
RECURSIVE set_of(_, _)
set_of(items, seen) ==
    IF items = <<>> THEN seen
    ELSE IF \E x \in seen : py_eq(x, Head(items)) THEN set_of(Tail(items), seen)
    ELSE set_of(Tail(items), seen \cup {Head(items)})

\* class_(iterator) for list, tuple and set; set raises TypeError for an
\* item that has no hash
construct(class_, items) ==
    IF class_ = "set"
    THEN IF \A i \in 1..Len(items) : hashable(items[i])
         THEN Ok([py |-> "set", val |-> set_of(items, {})])
         ELSE Raise("TypeError")
    ELSE Ok([py |-> class_, val |-> items])

\* len(collection)
len(collection) ==
    IF collection.py = "set" THEN Cardinality(collection.val)
    ELSE Len(collection.val)

\* (mutation of Pipeline_collect_as: the collection is returned as it is)
Pipeline_collect_as_always(items, class_) ==
    LET collection == construct(class_, items)
    IN  IF ~IsOk(collection) THEN collection
        ELSE Something(collection.value)

\* Pipeline.collect_as(class_): `if collection and len(collection)`
Pipeline_collect_as(items, class_) ==
    LET collection == construct(class_, items)
    IN  IF ~IsOk(collection) THEN collection
        ELSE IF truthy(collection.value) /\ len(collection.value) # 0
        THEN Something(collection.value)
        ELSE Nothing

\* AsyncPipeline.collect_as(class_): class_ is given the list of the items
AsyncPipeline_collect_as(items, class_) ==
    LET collection == construct(class_, items)
    IN  IF ~IsOk(collection) THEN collection
        ELSE IF truthy(collection.value) /\ len(collection.value) # 0
        THEN Something(collection.value)
        ELSE Nothing

\* filter(bool, mapped): the items that are true, in order
RECURSIVE filter_bool(_)
filter_bool(mapped) ==
    IF mapped = <<>> THEN <<>>
    ELSE IF truthy(Head(mapped)) THEN <<Head(mapped)>> \o filter_bool(Tail(mapped))
    ELSE filter_bool(Tail(mapped))

\* map(func, iterator)
map(items, func) == [i \in 1..Len(items) |-> func[items[i]]]

\* Pipeline.filter_map(func): filter(bool, map(func, self._iterator))
Pipeline_filter_map(items, func) == filter_bool(map(items, func))

\* AsyncPipeline.filter_map(func): `if new := func(item): yield new`, func
\* awaited when it is a coroutine function
RECURSIVE AsyncPipeline_filter_map(_, _, _)
AsyncPipeline_filter_map(items, func, iscoroutinefunction) ==
    IF items = <<>> THEN <<>>
    ELSE LET new == func[Head(items)]
             rest == AsyncPipeline_filter_map(Tail(items), func, iscoroutinefunction)
         IN  IF iscoroutinefunction
             THEN IF truthy(new) THEN <<new>> \o rest ELSE rest
             ELSE IF truthy(new) THEN <<new>> \o rest ELSE rest

----------------------------------------------------------------------------
(* app/pipeline.py: a Pipeline or an AsyncPipeline as the chain of         *)
(* iterators it is.  `source` is what the source can yield and `pulled`    *)
(* how many items it was asked for; `stages` are the map, filter and       *)
(* filter_map composed on it; `calls` lists the calls of their functions   *)
(* as <<stage, index of the source item>>; `flight` is the item that left  *)
(* the source and has not reached the consumer nor been dropped;           *)
(* `finished` counts the items that did; `out` is what the consumer holds. *)

NoPipe == [kind |-> "none", phase |-> "done"]

\* Pipeline(iterable) and AsyncPipeline(generator): iter(iterable) and the
\* generator object are kept, nothing is asked of them
new_pipeline(kind, source) ==
    [kind |-> kind, source |-> source, pulled |-> 0, stages |-> <<>>,
     calls |-> <<>>, flight |-> <<>>, finished |-> 0, out |-> <<>>,
     phase |-> "built", terminal |-> "none", again |-> FALSE, gone |-> {},
     exhausted |-> FALSE]

\* (mutation of redrive: the source starts over, as a list would)
redrive_restarting(p, stages, terminal) ==
    [p EXCEPT !.stages = stages, !.terminal = terminal, !.phase = "driven",
              !.out = <<>>, !.again = TRUE, !.pulled = 0, !.finished = 0,
              !.gone = {p.out[i].idx : i \in 1..Len(p.out)},
              !.exhausted = (p.pulled = Len(p.source))]

\* a pipeline that was consumed is driven again, or another pipeline that
\* map, filter or filter_map made of the same source is driven: both hold
\* the one iterator (iter(iterable), the generator object), which goes on
\* from where it is; `gone` are the items the consumer before took, and
\* `exhausted` tells whether that consumer met the end of the source
redrive(p, stages, terminal) ==
    [p EXCEPT !.stages = stages, !.terminal = terminal, !.phase = "driven",
              !.out = <<>>, !.again = TRUE,
              !.gone = {p.out[i].idx : i \in 1..Len(p.out)},
              !.exhausted = (p.pulled = Len(p.source))]

\* (mutation of compose: the new stage is run over the source at once)
compose_eager(p, op, func, iscoroutinefunction) ==
    [p EXCEPT !.stages = Append(@, [op |-> op, func |-> func,
                                    iscoroutinefunction |-> iscoroutinefunction]),
              !.pulled = Len(p.source)]

\* map(func), filter(func), filter_map(func): a new pipeline around the lazy
\* map(...) / filter(...) of the iterator, or around gen(), a generator
\* whose body has not started
compose(p, op, func, iscoroutinefunction) ==
    [p EXCEPT !.stages = Append(@, [op |-> op, func |-> func,
                                    iscoroutinefunction |-> iscoroutinefunction])]

\* (mutation of may_request: the source is asked while an item is in flight)
may_request_ahead(p) == p.phase = "driven"

\* the source is asked for its next item when the consumer asks the last
\* stage and every stage asks the one before it (`async for item in
\* self._generator`, next() of map and filter): no stage holds an item then
may_request(p) == p.phase = "driven" /\ p.flight = <<>>

\* the source yields its next item to the first stage
request(p) ==
    [p EXCEPT !.pulled = @ + 1,
              !.flight = <<[idx |-> p.pulled + 1, value |-> p.source[p.pulled + 1],
                            stage |-> 1]>>]

\* the stage that holds the item calls its function on it (awaited when it
\* is a coroutine function): map passes the result on, filter passes the
\* item on when the result is true, filter_map the result when it is true;
\* otherwise the item is dropped and the stage asks for the next one
work(p) ==
    LET item == p.flight[1]
        stage == p.stages[item.stage]
        new == stage.func[item.value]
        called == [p EXCEPT !.calls = Append(@, <<item.stage, item.idx>>)]
        passed == IF stage.op = "filter" THEN item.value ELSE new
    IN  IF stage.op = "map" \/ truthy(new)
        THEN [called EXCEPT !.flight = <<[idx |-> item.idx, value |-> passed,
                                          stage |-> item.stage + 1]>>]
        ELSE [called EXCEPT !.flight = <<>>, !.finished = @ + 1]

\* (mutation of unwrap: an Err gives None)
unwrap_or_none(item) ==
    IF item.kind = "Ok" THEN [returns |-> item.value] ELSE [returns |-> PyNone]

\* item.unwrap(): the value of an Ok, UnwrapError out of an Err
unwrap(item) ==
    IF item.kind = "Ok" THEN [returns |-> item.value]
    ELSE [raises |-> "UnwrapError"]

\* the consumer takes the item the last stage yields: collect_as and a for
\* loop keep it, the comprehension of unwrap_as keeps item.unwrap() or is
\* left by the UnwrapError
deliver(p) ==
    LET item == p.flight[1]
        taken == IF p.terminal = "unwrap_as" THEN unwrap(item.value)
                 ELSE [returns |-> item.value]
    IN  IF "raises" \in DOMAIN taken
        THEN [p EXCEPT !.flight = <<>>, !.finished = @ + 1, !.phase = "done"]
        ELSE [p EXCEPT !.flight = <<>>, !.finished = @ + 1,
                       !.out = Append(@, [idx |-> item.idx, value |-> taken.returns])]

\* the values the consumer holds, in the order it took them
values_of(out) == [i \in 1..Len(out) |-> out[i].value]

\* what the call that drove the pipeline returns once the source is
\* exhausted: collect_as(list), the list of a for loop, or unwrap_as(list)
\* under as_async_result(UnwrapError)
driven_result(p) ==
    IF p.terminal = "unwrap_as"
    THEN as_async_result({"UnwrapError"},
                         [returns |-> construct("list", values_of(p.out)).value])
    ELSE IF p.terminal = "collect_as"
    THEN IF p.kind = "Pipeline" THEN Pipeline_collect_as(values_of(p.out), "list")
         ELSE AsyncPipeline_collect_as(values_of(p.out), "list")
    ELSE construct("list", values_of(p.out)).value

----------------------------------------------------------------------------
(* app/disaster_events.py: DisasterEvent, DisasterAlert, DisasterTracker   *)

MaxHazards == 2
HazardIds == 1..MaxHazards

DISASTER_DISTANCE_THRESHOLD_KM == 500

\* the corners scan_active_disasters computes for the points of the model:
\* bearing 45 (northeast) and bearing 225 (southwest); the function is pure,
\* so the table is computed once and kept in geo
destination_points ==
    [p \in Points |->
        [northeast |-> calc_destination_point_by(p, DISASTER_DISTANCE_THRESHOLD_KM, 45),
         southwest |-> calc_destination_point_by(p, DISASTER_DISTANCE_THRESHOLD_KM, 225)]]

\* where the hazards of the feed are: inside and outside New York's
\* rectangle, and on the northeast corners of the two rectangles
InsideNewYork == <<4000, -7000>>
OutsideNewYork == <<2000, -7000>>
HazardPoints ==
    {InsideNewYork, OutsideNewYork, geo[NewYork].northeast, geo[NearAntimeridian].northeast}

\* an event of the EONET feed: its id, its closed value (null, a closing
\* date, or no closed key at all) and the <<lat, lon>> of its latest
\* geometry; one category each
EonetBodies ==
    [closed: {"null"}, point: HazardPoints]
        \cup [closed: {"date", "absent"}, point: {InsideNewYork}]

EonetEvent(id, body) == [id |-> id, closed |-> body.closed, point |-> body.point]

DisasterEventFields ==
    {"_id", "name", "description", "link", "categories", "active", "lat", "lon",
     "most_recent_date", "magnitude"}

\* (mutation of closed_or_true: bool(obj["closed"]))
closed_is_set(closed) == [py |-> "bool", val |-> closed # "null"]

\* obj["closed"] or True, as a Python value [py, val]: null gives True, a
\* closing date (a non-empty string) gives the string itself
closed_or_true(closed) ==
    IF closed = "null" THEN [py |-> "bool", val |-> TRUE]
    ELSE [py |-> "str", val |-> closed]

\* pydantic's bool field: a bool passes, a date string does not
ValidBool(v) == v.py = "bool"

\* DisasterEvent.from_eonet(obj): obj["closed"] of an object without the key
\* is a KeyError, which as_result(ValidationError, KeyError) turns into Err
DisasterEvent_from_eonet(obj) ==
    LET active == closed_or_true(obj.closed)
    IN  IF obj.closed = "absent" THEN Err("KeyError")
        ELSE IF ValidBool(active)
        THEN Ok([id |-> obj.id, name |-> "title", description |-> "", link |-> "link",
                 categories |-> <<"category">>, active |-> active.val,
                 lat |-> obj.point[1], lon |-> obj.point[2],
                 most_recent_date |-> 1, magnitude |-> ""])
        ELSE Err("ValidationError")

\* ResultModel.to_(dict) for DisasterEvent
DisasterEvent_to_dict(m) ==
    [_id |-> m.id, name |-> m.name, description |-> m.description, link |-> m.link,
     categories |-> m.categories, active |-> m.active, lat |-> m.lat, lon |-> m.lon,
     most_recent_date |-> m.most_recent_date, magnitude |-> m.magnitude]

\* ResultModel.from_(dict) for DisasterEvent
DisasterEvent_from_(doc) ==
    IF (DisasterEventFields \ {"description"}) \subseteq DOMAIN doc
       /\ Len(doc.categories) = 1 /\ doc.active \in BOOLEAN
    THEN Ok([id |-> doc._id, name |-> doc.name,
             description |-> IF "description" \in DOMAIN doc THEN doc.description ELSE "",
             link |-> doc.link, categories |-> doc.categories, active |-> doc.active,
             lat |-> doc.lat, lon |-> doc.lon,
             most_recent_date |-> doc.most_recent_date, magnitude |-> doc.magnitude])
    ELSE Err("ValidationError")

\* the documents of a collection with their _id in ids, in the collection's order
RECURSIVE docs_in_order(_, _)
docs_in_order(coll, ids) ==
    IF ids = {} THEN <<>>
    ELSE LET m == CHOOSE i \in ids : \A j \in ids : i <= j
         IN  <<coll[m]>> \o docs_in_order(coll, ids \ {m})

\* {"$gte": lo, "$lte": hi}
in_range(v, lo, hi) == v >= lo /\ v <= hi

\* a document matches the query by = (lat range, lon range, active)
matches(doc, by) ==
    /\ in_range(doc.lat, by.lat.gte, by.lat.lte)
    /\ in_range(doc.lon, by.lon.gte, by.lon.lte)
    /\ doc.active = by.active

\* EventStorage.find(**by): the cursor over the documents that match
EventStorage_find(coll, by) ==
    docs_in_order(coll, {k \in DOMAIN coll : matches(coll[k], by)})

\* EventStorage.update_many(objs): one UpdateOne($set, upsert=True) per object
RECURSIVE bulk_upsert(_, _)
bulk_upsert(coll, objs) ==
    IF objs = <<>> THEN coll
    ELSE LET o == Head(objs)
             d == [n \in DOMAIN o \ {"_id"} |-> o[n]]
         IN  bulk_upsert(EventStorage_update_by_id(coll, o._id, d, "none").coll, Tail(objs))

EventStorage_update_many(coll, objs, f) ==
    IF objs = <<>> THEN [coll |-> coll, res |-> Ok("dict")]
    ELSE IF f # "none" THEN [coll |-> coll, res |-> Err("PyMongoError")]
    ELSE [coll |-> bulk_upsert(coll, objs), res |-> Ok("bulk_api_result")]

\* DisasterAlert(recipient, event, disasters): the field disasters is declared
\* tuple[DisasterEvent], a tuple of exactly one item; any other length is a
\* ValidationError raised by the constructor
DisasterAlert(recipient, event, dis) ==
    IF Len(dis) = 1
    THEN Ok([recipient |-> recipient, event |-> event, disasters |-> dis,
             dangerous |-> TRUE])
    ELSE Raise("ValidationError")

\* DisasterTracker.save_many(disasters)
save_many(coll, dis, f) ==
    LET dumped == [i \in 1..Len(dis) |-> DisasterEvent_to_dict(dis[i])]
    IN  IF Len(dumped) > 0 THEN EventStorage_update_many(coll, dumped, f)
        ELSE [coll |-> coll, res |-> Ok("dict")]

\* (mutation of EventStorage_after_find: the cursor takes what it yields)
EventStorage_after_find_consuming(coll, by) ==
    [k \in {j \in DOMAIN coll : ~matches(coll[j], by)} |-> coll[k]]

\* the collection after EventStorage.find(**by) and the draining of its
\* cursor: collection.find is a read, nothing is written
EventStorage_after_find(coll, by) == coll

\* the query of scan_active_disasters(point): the rectangle between the two
\* destination points, and active
scan_query(point) ==
    LET northeast == geo[point].northeast
        southwest == geo[point].southwest
        max_lat == northeast[1]
        max_lon == northeast[2]
        min_lat == southwest[1]
        min_lon == southwest[2]
    IN  [lat |-> [gte |-> min_lat, lte |-> max_lat],
         lon |-> [gte |-> min_lon, lte |-> max_lon],
         active |-> TRUE]

\* DisasterTracker.scan_active_disasters(point); f is what the cursor meets
\* while it is drained: a PyMongoError there is raised out of collect_as
scan_active_disasters(coll, point, f) ==
    LET docs == EventStorage_find(coll, scan_query(point))
    IN  IF f # "none" THEN Raise("PyMongoError")
        ELSE collect_as(filter_map_ok(
                 [i \in 1..Len(docs) |-> DisasterEvent_from_(docs[i])]))

\* DisasterTracker.check_calendar_event(event)
check_calendar_event(coll, event, f) ==
    Only({IF "kind" \in DOMAIN found THEN found
          ELSE IF IsSomething(found)
          THEN LET alert == DisasterAlert(event.creator, event, found.value)
               IN  IF IsOk(alert) THEN Something(alert.value) ELSE alert
          ELSE Nothing :
            found \in {scan_active_disasters(coll, event.coordinates, f)}})

----------------------------------------------------------------------------
(* app/calendar_events.py: list_events_scheduled_in.  Time is counted in   *)
(* ticks, TicksPerDay of them to a day; the last tick of a day stands for  *)
(* time.max, 23:59:59.999999.                                              *)

TicksPerDay == 3

\* datetime.combine(datetime.utcnow(), time.max): the date of now with the
\* latest time of day
combine_time_max(now) == (now \div TicksPerDay) * TicksPerDay + (TicksPerDay - 1)

\* relativedelta(days=days)
relativedelta(days) == days * TicksPerDay

\* EventStorage.find(start={"$lte": hi, "$gte": lo}, tracked=tracked)
EventStorage_find_scheduled(coll, lo, hi, tracked) ==
    docs_in_order(coll, {k \in DOMAIN coll :
                            /\ in_range(coll[k].start, lo, hi)
                            /\ coll[k].tracked = tracked})

\* CalendarTracker.list_events_scheduled_in(days, tracked): the events the
\* AsyncPipeline it returns yields
list_events_scheduled_in(coll, now, days, tracked) ==
    LET docs == EventStorage_find_scheduled(
                    coll, combine_time_max(now),
                    combine_time_max(now) + relativedelta(days), tracked)
    IN  Ok(filter_map_ok([i \in 1..Len(docs) |-> CalendarEvent_from_(docs[i])]))

----------------------------------------------------------------------------
(* app/db.py: QuickStorage over redis, and app/watcher.py: the registry of *)
(* watched calendars and of channels.  A key is <<prefix, id>>; a value is *)
(* a string [py |-> "str"] or a hash [py |-> "hash"].                      *)

Calendars == {"primary"}
ChannelIds == {"channel-1", "channel-2"}
Users == {"user@mail"}

\* QuickStorage.set(key, value): SET
QuickStorage_set(store, key, value, f) ==
    IF f # "none" THEN [store |-> store, res |-> Err("RedisError")]
    ELSE [store |-> [k \in DOMAIN store \cup {key} |->
                       IF k = key THEN [py |-> "str", val |-> value] ELSE store[k]],
          res |-> Ok(TRUE)]

\* QuickStorage.set_map(key, mapping): HSET; the client walks mapping.items()
\* before it sends anything, an AttributeError for a mapping that is no dict,
\* which as_async_result(RedisError) lets through
QuickStorage_set_map(store, key, mapping, f) ==
    IF mapping.py # "dict" THEN [store |-> store, res |-> Raise("AttributeError")]
    ELSE IF f # "none" THEN [store |-> store, res |-> Err("RedisError")]
    ELSE IF key \in DOMAIN store /\ store[key].py # "hash"
    THEN [store |-> store, res |-> Err("RedisError")]
    ELSE LET old == IF key \in DOMAIN store THEN store[key].val ELSE EmptyColl
             new == [n \in DOMAIN old \cup DOMAIN mapping.val |->
                       IF n \in DOMAIN mapping.val THEN mapping.val[n] ELSE old[n]]
         IN  [store |-> [k \in DOMAIN store \cup {key} |->
                           IF k = key THEN [py |-> "hash", val |-> new] ELSE store[k]],
              res |-> Ok(Cardinality(DOMAIN mapping.val \ DOMAIN old))]

\* QuickStorage.get_map(key): HGETALL, the empty dict for a key that is not there
QuickStorage_get_map(store, key, f) ==
    IF f # "none" THEN Err("RedisError")
    ELSE IF key \notin DOMAIN store THEN Ok(Something(EmptyColl))
    ELSE IF store[key].py = "hash" THEN Ok(Something(store[key].val))
    ELSE Err("RedisError")

\* ResultModel.from_(dict) for ChannelInfo: id, user_email and calendar_id
\* are all required
ChannelInfo_from_(obj) ==
    IF {"id", "user_email", "calendar_id"} \subseteq DOMAIN obj
    THEN Ok([id |-> obj.id, user_email |-> obj.user_email,
             calendar_id |-> obj.calendar_id])
    ELSE Err("ValidationError")

\* channel_info.to_(dict, exclude={"id"}): the Result that to_ returns
ChannelInfo_to_dict(info) ==
    Ok([user_email |-> info.user_email, calendar_id |-> info.calendar_id])

\* EventChannels.create(channel_info): the mapping handed to set_map is the
\* Result of to_, not the dict in it
EventChannels_create(store, info, f) ==
    QuickStorage_set_map(store, <<"PREFERENCES:", info.id>>,
                         [py |-> "Ok", val |-> ChannelInfo_to_dict(info)], f)

\* EventChannels.get(channel_id): Ok(ChannelInfo) or Err out of from_ for
\* what HGETALL gave, Ok(Nothing) for no Option value, the Err of the storage
EventChannels_get(store, channel_id, f) ==
    LET got == QuickStorage_get_map(store, <<"PREFERENCES:", channel_id>>, f)
    IN  IF IsOk(got)
        THEN IF IsSomething(got.value) THEN ChannelInfo_from_(got.value.value)
             ELSE Ok(Nothing)
        ELSE got

\* WatchedCalendars.create(calendar_id, channel_id)
WatchedCalendars_create(store, calendar_id, channel_id, f) ==
    QuickStorage_set(store, <<"CALENDAR:", calendar_id>>, channel_id, f)

\* QuickStorage.get(key): GET, None for a key that is not there; a key that
\* holds a hash is an error of the server (WRONGTYPE)
QuickStorage_get(store, key, f) ==
    IF f # "none" THEN Err("RedisError")
    ELSE IF key \notin DOMAIN store THEN Ok(Nothing)
    ELSE IF store[key].py = "str" THEN Ok(Something(store[key].val))
    ELSE Err("RedisError")

\* QuickStorage.delete(key): DEL, the number of keys removed
QuickStorage_delete(store, key, f) ==
    IF f # "none" THEN [store |-> store, res |-> Err("RedisError")]
    ELSE [store |-> [k \in DOMAIN store \ {key} |-> store[k]],
          res |-> Ok(IF key \in DOMAIN store THEN 1 ELSE 0)]

\* ResultModel.from_(str) for ChannelInfo: model_validate_json of the text.
\* The texts kept under CALENDAR: are channel ids, the text of a uuid4,
\* which is no JSON document
ChannelInfo_from_str(text) == Err("ValidationError")

\* EventChannels.delete(channel_id)
EventChannels_delete(store, channel_id, f) ==
    QuickStorage_delete(store, <<"PREFERENCES:", channel_id>>, f)

\* a value matches the pattern Ok(Something(x))
IsOkSomething(r) ==
    /\ IsOk(r)
    /\ "opt" \in DOMAIN r.value
    /\ IsSomething(r.value)

\* WatchedCalendars.get(calendar_id): a channel id that is there is handed
\* to ChannelInfo.from_, everything else is returned as it is
WatchedCalendars_get(store, calendar_id, f) ==
    LET got == QuickStorage_get(store, <<"CALENDAR:", calendar_id>>, f)
    IN  IF IsOkSomething(got) THEN ChannelInfo_from_str(got.value.value)
        ELSE got

\* WatchedCalendars.delete(calendar_id)
WatchedCalendars_delete(store, calendar_id, f) ==
    QuickStorage_delete(store, <<"CALENDAR:", calendar_id>>, f)

----------------------------------------------------------------------------
(* app/preferences.py, app/session.py, app/credentials.py: the other       *)
(* components that keep keys in redis.  The expiry of a key is not         *)
(* modelled.  ClientSession has the empty prefix, so its key is the        *)
(* session id itself: a session id is given as the pair <<head, rest>> of  *)
(* the text head + rest, and the text of a uuid4 has the empty head.       *)

\* UserPreferences.create(email, pref): pref.to_(str), then set(email, dumped)
UserPreferences_create(store, email, f) ==
    QuickStorage_set(store, <<"PREFERENCES:", email>>, "preferences", f)

\* UserPreferences.pop(email): get(email), and delete(email) when it is there
UserPreferences_pop(store, email, f) ==
    LET got == QuickStorage_get(store, <<"PREFERENCES:", email>>, f)
    IN  IF IsOkSomething(got)
        THEN [store |-> QuickStorage_delete(store, <<"PREFERENCES:", email>>, f).store,
              res |-> Ok("Preferences")]
        ELSE IF IsOk(got) THEN [store |-> store, res |-> Ok("Preferences")]
        ELSE [store |-> store, res |-> got]

\* ClientSession.create(email): set(session_id, email) for a fresh uuid4
ClientSession_create(store, session_id, email, f) ==
    LET w == QuickStorage_set(store, <<"", session_id>>, email, f)
    IN  IF IsOk(w.res) THEN [store |-> w.store, res |-> Ok(session_id)] ELSE w

\* ClientSession.delete(session_id): delete of the text the caller hands in
ClientSession_delete(store, session_id, f) ==
    QuickStorage_delete(store, session_id, f)

\* ServiceCredentialStorage.save(email, creds): set(email, creds.to_json())
ServiceCredentialStorage_save(store, email, f) ==
    QuickStorage_set(store, <<"CREDENTIALS:", email>>, "credentials", f)

\* ServiceCredentialStorage.delete(email)
ServiceCredentialStorage_delete(store, email, f) ==
    QuickStorage_delete(store, <<"CREDENTIALS:", email>>, f)

----------------------------------------------------------------------------
(* the state: the two collections, the redis keys, the record of the       *)
(* latest call and the table of rectangle corners                          *)

\* the sync_event calls that may be in flight at once, and a call that is
\* not in flight
Tasks == {"first", "second"}

Idle == [phase |-> "idle"]

\* the stored document of an id, as an Option
Stored(coll, id) == IF id \in DOMAIN coll THEN Something(coll[id]) ELSE Nothing

\* the celery worker before a run of tasks.eonet_updates: i is the loop
\* variable of `for _ in range(5)`, sent the answers to the requests sent
NotRunning == [phase |-> "idle", i |-> 0, sent |-> <<>>]

Init ==
    /\ events = EmptyColl
    /\ disasters = EmptyColl
    /\ redis = EmptyColl
    /\ last = [op |-> "init"]
    /\ geo = destination_points
    /\ pipe = NoPipe
    /\ tasks = [t \in Tasks |-> Idle]
    /\ worker = NotRunning

(* calls of the CalendarTracker operations *)

\* this sync_event call repeats the call before it: same incoming event, no
\* other call in between, the storage healthy both times
SameSyncAgain(updated, fl, fw) ==
    /\ last.op = "sync_event"
    /\ last.arg = updated
    /\ last.fl = "none" /\ last.fw = "none"
    /\ fl = "none" /\ fw = "none"

SyncEvent(updated, fl, fw) ==
    \E r \in {sync_event(events, updated, fl, fw)} :
        /\ events' = r.coll
        /\ last' = [op |-> "sync_event", arg |-> updated, id |-> updated.id,
                    pre |-> Stored(events, updated.id), res |-> r.res,
                    fl |-> fl, fw |-> fw,
                    again |-> SameSyncAgain(updated, fl, fw),
                    first |-> IF SameSyncAgain(updated, fl, fw) THEN last.res
                              ELSE r.res,
                    marked |-> (/\ last.op = "save_as_tracked"
                                /\ last.id = updated.id
                                /\ IsOk(last.res))]
        /\ UNCHANGED <<disasters, redis, geo, pipe, tasks, worker>>

SaveAsTracked(event, f) ==
    \E r \in {save_as_tracked(events, event, f)} :
        /\ events' = r.coll
        /\ last' = [op |-> "save_as_tracked", arg |-> event, id |-> event.id,
                    pre |-> Stored(events, event.id), res |-> r.res, f |-> f]
        /\ UNCHANGED <<disasters, redis, geo, pipe, tasks, worker>>

DeleteEvent(id, f) ==
    \E r \in {delete_event(events, id, f)} :
        /\ events' = r.coll
        /\ last' = [op |-> "delete_event", arg |-> id, id |-> id,
                    pre |-> Stored(events, id), res |-> r.res]
        /\ UNCHANGED <<disasters, redis, geo, pipe, tasks, worker>>

CreateOrUpdateEvent(event, f) ==
    \E r \in {create_or_update_event(events, event, f)} :
        /\ events' = r.coll
        /\ last' = [op |-> "create_or_update_event", arg |-> event, id |-> event.id,
                    pre |-> Stored(events, event.id), res |-> r.res]
        /\ UNCHANGED <<disasters, redis, geo, pipe, tasks, worker>>

(* calls of the DisasterTracker operations and the hazard ingestion *)

\* the feed of one fetch: at most one event per id
EonetFeeds ==
    {[i \in HazardIds |-> IF pick[i] = Nothing THEN Nothing
                          ELSE EonetEvent(i, pick[i])] :
        pick \in [HazardIds -> EonetBodies \cup {Nothing}]}

\* NasaEonetEventAPI.fetch_events: the events of the feed that from_eonet accepts
RECURSIVE fetch_events(_, _)
fetch_events(feed, ids) ==
    IF ids = {} THEN <<>>
    ELSE LET m == CHOOSE i \in ids : \A j \in ids : i <= j
             rest == fetch_events(feed, ids \ {m})
         IN  IF feed[m] # Nothing /\ IsOk(DisasterEvent_from_eonet(feed[m]))
             THEN <<DisasterEvent_from_eonet(feed[m]).value>> \o rest
             ELSE rest

\* POST /process_eonet_events: fetch_events, then save_many
ProcessEonetEvents(feed, f) ==
    \E r \in {save_many(disasters, fetch_events(feed, HazardIds), f)} :
        /\ disasters' = r.coll
        /\ last' = [op |-> "save_many", res |-> r.res,
                    closed |-> {feed[i].closed : i \in {j \in HazardIds : feed[j] # Nothing}}]
        /\ UNCHANGED <<events, redis, geo, pipe, tasks, worker>>

ScanActiveDisasters(point, f) ==
    /\ last' = [op |-> "scan_active_disasters", arg |-> point, f |-> f,
                rect |-> geo[point],
                res |-> scan_active_disasters(disasters, point, f)]
    /\ disasters' = EventStorage_after_find(disasters, scan_query(point))
    /\ UNCHANGED <<events, redis, geo, pipe, tasks, worker>>

CheckCalendarEvent(event, f) ==
    /\ last' = [op |-> "check_calendar_event", arg |-> event, f |-> f,
                res |-> check_calendar_event(disasters, event, f)]
    /\ disasters' = EventStorage_after_find(disasters, scan_query(event.coordinates))
    /\ UNCHANGED <<events, redis, geo, pipe, tasks, worker>>

NextCorrelator ==
    \/ \E feed \in EonetFeeds, f \in Faults : ProcessEonetEvents(feed, f)
    \/ \E p \in Points, f \in Faults : ScanActiveDisasters(p, f)
    \/ \E e \in CalendarEvent, f \in Faults : CheckCalendarEvent(e, f)

SpecCorrelator == Init /\ [][NextCorrelator]_vars

NextTracker ==
    \/ \E e \in CalendarEvent, fl \in Faults, fw \in Faults : SyncEvent(e, fl, fw)
    \/ \E e \in CalendarEvent, f \in Faults : SaveAsTracked(e, f)
    \/ \E id \in EventIds, f \in Faults : DeleteEvent(id, f)
    \/ \E e \in CalendarEvent, f \in Faults : CreateOrUpdateEvent(e, f)

SpecTracker == Init /\ [][NextTracker]_vars

----------------------------------------------------------------------------
(* app/api/main.py: the request handlers.  A request meets collaborators   *)
(* (the Google API, the two stores, the notifier) of which at most         *)
(* MaxFaults fail while it runs; env maps each to TRUE when it fails.      *)

MaxFaults == 1

Envs(names) ==
    {env \in [names -> BOOLEAN] : Cardinality({n \in names : env[n]}) <= MaxFaults}

Mongo(fails) == IF fails THEN "PyMongoError" ELSE "none"
Redis(fails) == IF fails THEN "RedisError" ELSE "none"

\* what CalendarEvent.from_api builds from an event of the Google API, which
\* has no `tracked` key: tracked = obj.get('tracked', False)
RemoteEvents == {e \in CalendarEvent : e.tracked = FALSE}

\* what CalendarApi.list_events yields: located events, no id twice
ListedEvents ==
    {<<>>} \cup {<<e>> : e \in RemoteEvents}
           \cup {l \in RemoteEvents \X RemoteEvents : l[1].id # l[2].id}

\* the ids of a list of events, in the order of the list
ListedIds(listed) == [i \in 1..Len(listed) |-> listed[i].id]

\* AlertNotifier.notify(alert)
notify(alert, fails) == IF fails THEN Err("HttpError") ELSE Ok("sent")

\* the ids whose stored tracked bit went from true to false between two
\* contents of the calendar_events collection
Cleared(pre, post) ==
    {id \in DOMAIN pre \cap DOMAIN post :
        pre[id].tracked = TRUE /\ post[id].tracked = FALSE}

\* watch, the loop over the listed events: correlate, notify on an alert,
\* then create_or_update_event; an exception out of check_calendar_event
\* ends the request, an Err of notify or of the upsert is logged; handled
\* lists the ids create_or_update_event was called with, in the order of
\* the calls
RECURSIVE watch_scan(_, _, _, _, _, _)
watch_scan(coll, hazards, listed, env, notified, handled) ==
    IF listed = <<>>
    THEN [coll |-> coll, res |-> Ok(TRUE), notified |-> notified, handled |-> handled]
    ELSE Only({
            IF "kind" \in DOMAIN checked
            THEN [coll |-> coll, res |-> checked, notified |-> notified,
                  handled |-> handled]
            ELSE LET event == Head(listed)
                     sent == IF IsSomething(checked)
                             THEN IsOk(notify(checked.value, env["notify"]))
                             ELSE FALSE
                     saved == create_or_update_event(coll, event, Mongo(env["upsert"]))
                 IN  watch_scan(saved.coll, hazards, Tail(listed), env,
                                IF sent THEN notified \cup {event.id} ELSE notified,
                                Append(handled, event.id)) :
            checked \in {check_calendar_event(hazards, Head(listed), Mongo(env["scan"]))}})

WatchCollaborators ==
    {"list_events", "scan", "notify", "upsert", "watch_calendar", "redis"}

\* the arm of a match on a Result that is taken: `case Ok(_)`, `case Err(err)`,
\* or none of them for a subject that is neither
result_arm(subject) ==
    IF "kind" \in DOMAIN subject /\ subject.kind = "Ok" THEN "Ok"
    ELSE IF "kind" \in DOMAIN subject /\ subject.kind = "Err" THEN "Err"
    ELSE "no case"

\* watch, after the loop: watch_calendar, then the calendar entry is written
\* and awaited; then_async is an async method, so what the handler matches
\* is the coroutine it returns, which nothing awaits: channels.create does
\* not run, no case matches and the handler returns None (200, body null)
watch_subscribe(scan, store, calendar_id, user_email, channel_id, env) ==
    IF ~IsOk(scan.res)
    THEN [coll |-> scan.coll, store |-> store, notified |-> scan.notified,
          handled |-> scan.handled, resp |-> "raise"]
    ELSE IF env["watch_calendar"]
    THEN [coll |-> scan.coll, store |-> store, notified |-> scan.notified,
          handled |-> scan.handled, resp |-> "HTTPException"]
    ELSE LET wc == WatchedCalendars_create(store, calendar_id, channel_id,
                                           Redis(env["redis"]))
             subject == [py |-> "coroutine", self |-> wc.res,
                         info |-> [id |-> channel_id, user_email |-> user_email,
                                   calendar_id |-> calendar_id]]
             arm == result_arm(subject)
         IN  [coll |-> scan.coll, store |-> wc.store,
              notified |-> scan.notified, handled |-> scan.handled,
              resp |-> IF arm = "Ok" THEN "201"
                       ELSE IF arm = "Err" THEN "HTTPException"
                       ELSE "None"]

\* POST /watch
watch(coll, hazards, store, calendar_id, user_email, listed, channel_id, env) ==
    IF env["list_events"]
    THEN [coll |-> coll, store |-> store, notified |-> {}, handled |-> <<>>,
          resp |-> "HTTPException"]
    ELSE Only({watch_subscribe(scan, store, calendar_id, user_email, channel_id, env) :
                 scan \in {watch_scan(coll, hazards, listed, env, {}, <<>>)}})

Watch(calendar_id, user_email, listed, channel_id, env) ==
    \E r \in {watch(events, disasters, redis, calendar_id, user_email, listed,
                      channel_id, env)} :
        /\ events' = r.coll
        /\ redis' = r.store
        /\ last' = [op |-> "watch", resp |-> r.resp, notified |-> r.notified,
                    cleared |-> Cleared(events, r.coll),
                    calendar_id |-> calendar_id, user_email |-> user_email,
                    channel_id |-> channel_id, f |-> Redis(env["redis"]),
                    listing |-> IF env["list_events"] THEN Err("HttpError")
                                ELSE Ok(ListedIds(listed)),
                    handled |-> r.handled]
        /\ UNCHANGED <<disasters, geo, pipe, tasks, worker>>

\* CalendarApi.unwatch_calendar: the stop request is built and returned,
\* execute() is not called on it, so nothing is sent and no HttpError is met
unwatch_calendar(calendar_id, channel_id) ==
    Ok([py |-> "HttpRequest", id |-> channel_id, resourceId |-> calendar_id])

\* POST /unwatch: Ok(Something(channel_id)) stops the channel and deletes
\* both entries, Ok(Nothing()) is a 404; for any other result of
\* watched_calendars.get no case matches and the handler returns None
unwatch(store, calendar_id, f) ==
    LET got == WatchedCalendars_get(store, calendar_id, f)
    IN  IF IsOk(got) /\ "opt" \in DOMAIN got.value /\ IsSomething(got.value)
        THEN IF IsOk(unwatch_calendar(calendar_id, got.value.value))
             THEN LET wc == WatchedCalendars_delete(store, calendar_id, f)
                      ec == EventChannels_delete(wc.store, got.value.value, f)
                  IN  [store |-> ec.store, resp |-> "204"]
             ELSE [store |-> store, resp |-> "HTTPException"]
        ELSE IF got = Ok(Nothing) THEN [store |-> store, resp |-> "404"]
        ELSE [store |-> store, resp |-> "None"]

\* POST /unwatch; stop_fails tells whether Google would refuse the stop
\* request, which the handler cannot learn since the request is not sent
Unwatch(calendar_id, f, stop_fails) ==
    \E r \in {unwatch(redis, calendar_id, f)} :
        /\ redis' = r.store
        /\ last' = [op |-> "unwatch", resp |-> r.resp, calendar_id |-> calendar_id,
                    f |-> f, before |-> redis, stop_fails |-> stop_fails]
        /\ UNCHANGED <<events, disasters, geo, pipe, tasks, worker>>

ResourceStates == {"not_exists", "exists", "sync"}

\* what CalendarApi.get_event returns for the event id of a delivery: the
\* event, Nothing when the request for it failed, or an Err
ApiEvents(id) ==
    {Ok(Something(e)) : e \in {r \in RemoteEvents : r.id = id}}
        \cup {Ok(Nothing), Err("KeyError")}

MockCollaborators == {"lookup", "write", "scan", "notify"}

\* POST /listen_calendar_events_mock
\* listen_calendar_events_mock, after sync_event: then_async(check_calendar_event)
\* on its result, then the notifier
mock_correlate(synced, hazards, resource_id, env) ==
    Only({IF "kind" \in DOMAIN checked
          THEN [coll |-> synced.coll, notified |-> {},
                resp |-> IF checked.kind = "Raise" THEN "raise" ELSE "204"]
          ELSE IF IsSomething(checked)
          THEN LET sent == notify(checked.value, env["notify"])
               IN  [coll |-> synced.coll,
                    notified |-> IF IsOk(sent) THEN {resource_id} ELSE {},
                    resp |-> IF IsOk(sent) THEN "204" ELSE "HTTPException"]
          ELSE [coll |-> synced.coll, notified |-> {}, resp |-> "204"] :
            checked \in {IF IsOk(synced.res)
                         THEN check_calendar_event(hazards, synced.res.value,
                                                   Mongo(env["scan"]))
                         ELSE synced.res}})

listen_calendar_events_mock(coll, hazards, resource_id, resource_state, api_event, env) ==
    IF resource_state = "not_exists"
    THEN LET deleted == delete_event(coll, resource_id, Mongo(env["write"]))
         IN  [coll |-> deleted.coll, notified |-> {},
              resp |-> IF IsOk(deleted.res) THEN "201" ELSE "HTTPException"]
    ELSE IF IsOkSomething(api_event)
    THEN Only({mock_correlate(synced, hazards, resource_id, env) :
                 synced \in {sync_event(coll, api_event.value.value,
                                        Mongo(env["lookup"]), Mongo(env["write"]))}})
    ELSE [coll |-> coll, notified |-> {},
          resp |-> IF IsOk(api_event) THEN "204" ELSE "HTTPException"]

\* a delivery consults a collaborator only on the way it takes: not_exists
\* only deletes; exists and sync reach the stores and the notifier only with
\* an event from the Google API
MockInputs ==
    {in \in [id: EventIds, state: ResourceStates,
             api_event: UNION {ApiEvents(i) : i \in EventIds},
             env: Envs(MockCollaborators)] :
        /\ IsOkSomething(in.api_event) => in.api_event.value.value.id = in.id
        /\ in.state = "not_exists" =>
              /\ in.api_event = Ok(Nothing)
              /\ \A n \in MockCollaborators \ {"write"} : ~in.env[n]
        /\ (in.state # "not_exists" /\ ~IsOkSomething(in.api_event)) =>
              \A n \in MockCollaborators : ~in.env[n]}

ListenCalendarEventsMock(in) ==
    \E r \in {listen_calendar_events_mock(events, disasters, in.id, in.state,
                                            in.api_event, in.env)} :
        /\ events' = r.coll
        /\ last' = [op |-> "listen_calendar_events_mock", resp |-> r.resp,
                    notified |-> r.notified, cleared |-> Cleared(events, r.coll)]
        /\ UNCHANGED <<disasters, redis, geo, pipe, tasks, worker>>

ListenCollaborators == {"redis", "write"}

\* POST /listen_calendar_events: the channel is resolved first, and only a
\* channels.get that gives Ok(Something(channel_info)) lets the delivery on;
\* `case Ok(event)` then binds the Option that get_event returned, and
\* sync_event reads the id of it, an AttributeError
listen_calendar_events(coll, store, channel_id, resource_id, resource_state, api_event, env) ==
    LET channel == EventChannels_get(store, channel_id, Redis(env["redis"]))
    IN  IF ~IsOkSomething(channel)
        THEN [coll |-> coll,
              resp |-> IF IsOk(channel) /\ channel.value = Nothing THEN "404"
                       ELSE "HTTPException"]
        ELSE IF resource_state = "not_exists"
        THEN LET deleted == delete_event(coll, resource_id, Mongo(env["write"]))
             IN  [coll |-> deleted.coll,
                  resp |-> IF IsOk(deleted.res) THEN "201" ELSE "HTTPException"]
        ELSE [coll |-> coll, resp |-> IF IsOk(api_event) THEN "raise" ELSE "201"]

\* a delivery that does not get past the channel lookup consults neither the
\* Google API nor the calendar_events collection
ListenInputs(channel_id, env) ==
    IF IsOkSomething(EventChannels_get(redis, channel_id, Redis(env["redis"])))
    THEN {[id |-> id, state |-> st, api_event |-> ae] :
            id \in EventIds, st \in ResourceStates,
            ae \in UNION {ApiEvents(i) : i \in EventIds}}
    ELSE {[id |-> id, state |-> st, api_event |-> Ok(Nothing)] :
            id \in {1}, st \in ResourceStates}

ListenCalendarEvents(channel_id, in, env) ==
    \E r \in {listen_calendar_events(events, redis, channel_id, in.id, in.state,
                                       in.api_event, env)} :
        /\ events' = r.coll
        /\ last' = [op |-> "listen_calendar_events", resp |-> r.resp,
                    notified |-> {}, cleared |-> Cleared(events, r.coll),
                    channel_id |-> channel_id, state |-> in.state,
                    f |-> Redis(env["redis"]), before |-> events]
        /\ UNCHANGED <<disasters, redis, geo, pipe, tasks, worker>>

\* the registry on its own: the operations of EventChannels and of
\* WatchedCalendars, and POST /unwatch, over two calendars
RegistryCalendars == {"primary", "work"}

ChannelInfos == [id: ChannelIds, user_email: Users, calendar_id: RegistryCalendars]

RedisFaults == {"none", "RedisError"}

EventChannelsCreate(info, f) ==
    \E r \in {EventChannels_create(redis, info, f)} :
        /\ redis' = r.store
        /\ last' = [op |-> "EventChannels.create", info |-> info, f |-> f,
                    res |-> r.res]
        /\ UNCHANGED <<events, disasters, geo, pipe, tasks, worker>>

EventChannelsGet(channel_id, f) ==
    /\ last' = [op |-> "EventChannels.get", channel_id |-> channel_id, f |-> f,
                res |-> EventChannels_get(redis, channel_id, f)]
    /\ UNCHANGED <<events, disasters, redis, geo, pipe, tasks, worker>>

EventChannelsDelete(channel_id, f) ==
    \E r \in {EventChannels_delete(redis, channel_id, f)} :
        /\ redis' = r.store
        /\ last' = [op |-> "EventChannels.delete", channel_id |-> channel_id,
                    f |-> f, res |-> r.res]
        /\ UNCHANGED <<events, disasters, geo, pipe, tasks, worker>>

WatchedCalendarsCreate(calendar_id, channel_id, f) ==
    \E r \in {WatchedCalendars_create(redis, calendar_id, channel_id, f)} :
        /\ redis' = r.store
        /\ last' = [op |-> "WatchedCalendars.create", calendar_id |-> calendar_id,
                    channel_id |-> channel_id, f |-> f, res |-> r.res]
        /\ UNCHANGED <<events, disasters, geo, pipe, tasks, worker>>

WatchedCalendarsGet(calendar_id, f) ==
    /\ last' = [op |-> "WatchedCalendars.get", calendar_id |-> calendar_id,
                f |-> f, res |-> WatchedCalendars_get(redis, calendar_id, f)]
    /\ UNCHANGED <<events, disasters, redis, geo, pipe, tasks, worker>>

WatchedCalendarsDelete(calendar_id, f) ==
    \E r \in {WatchedCalendars_delete(redis, calendar_id, f)} :
        /\ redis' = r.store
        /\ last' = [op |-> "WatchedCalendars.delete", calendar_id |-> calendar_id,
                    f |-> f, res |-> r.res]
        /\ UNCHANGED <<events, disasters, geo, pipe, tasks, worker>>

NextRegistry ==
    \/ \E info \in ChannelInfos, f \in RedisFaults : EventChannelsCreate(info, f)
    \/ \E ch \in ChannelIds, f \in RedisFaults : EventChannelsGet(ch, f)
    \/ \E ch \in ChannelIds, f \in RedisFaults : EventChannelsDelete(ch, f)
    \/ \E c \in RegistryCalendars, ch \in ChannelIds, f \in RedisFaults :
          WatchedCalendarsCreate(c, ch, f)
    \/ \E c \in RegistryCalendars, f \in RedisFaults : WatchedCalendarsGet(c, f)
    \/ \E c \in RegistryCalendars, f \in RedisFaults : WatchedCalendarsDelete(c, f)
    \/ \E c \in RegistryCalendars, f \in RedisFaults, sf \in BOOLEAN : Unwatch(c, f, sf)

SpecRegistry == Init /\ [][NextRegistry]_vars

\* sync_event as the two steps its awaits make of it, next to the other
\* writers of the same event id: the event loop may run any of them, or the
\* lookup of another sync_event, between the lookup and the write of one.
\* The incoming events are those of one id, as from_api builds them
\* (tracked = false).
RaceEvents == {e \in CalendarEvent : e.id = 1 /\ ~e.tracked}

\* await self.get_event(updated.id): the call holds what it got
SyncLookup(t, updated, fl) ==
    /\ tasks[t] = Idle
    /\ tasks' = [tasks EXCEPT ![t] = [phase |-> "looked", updated |-> updated,
                                      got |-> get_event(events, updated.id, fl)]]
    /\ last' = [op |-> "get_event", id |-> updated.id, task |-> t]
    /\ UNCHANGED <<events, disasters, redis, geo, pipe, worker>>

\* the rest of sync_event: the write chosen by what the lookup returned, made
\* on the collection as it is by now
SyncWrite(t, fw) ==
    /\ tasks[t].phase = "looked"
    /\ \E r \in {sync_event_after_lookup(events, tasks[t].updated, tasks[t].got, fw)} :
          /\ events' = r.coll
          /\ last' = [op |-> "sync_event", id |-> tasks[t].updated.id, task |-> t,
                      seen |-> tasks[t].got, path |-> r.path,
                      stored |-> Stored(events, tasks[t].updated.id),
                      others |-> {o \in Tasks \ {t} : tasks[o].phase = "looked"},
                      res |-> r.res]
    /\ tasks' = [tasks EXCEPT ![t] = Idle]
    /\ UNCHANGED <<disasters, redis, geo, pipe, worker>>

NextRace ==
    \/ \E t \in Tasks, e \in RaceEvents, fl \in Faults : SyncLookup(t, e, fl)
    \/ \E t \in Tasks, fw \in Faults : SyncWrite(t, fw)
    \/ \E e \in RaceEvents : SaveAsTracked(e, "none")
    \/ \E e \in RaceEvents : CreateOrUpdateEvent(e, "none")
    \/ DeleteEvent(1, "none")

SpecRace == Init /\ [][NextRace]_vars

\* the key-value components side by side over one redis: the names a caller
\* may hand in as an email are the users and the texts of the channel ids
KeyNames == ChannelIds \cup Users

\* the session ids a caller may hand in: a uuid4, and a text that begins
\* with the prefix of another component
SessionIds == {<<"", "session-1">>, <<"PREFERENCES:", "channel-1">>}

UserPreferencesCreate(email, f) ==
    \E r \in {UserPreferences_create(redis, email, f)} :
        /\ redis' = r.store
        /\ last' = [op |-> "UserPreferences.create", name |-> email, f |-> f,
                    res |-> r.res]
        /\ UNCHANGED <<events, disasters, geo, pipe, tasks, worker>>

UserPreferencesPop(email, f) ==
    \E r \in {UserPreferences_pop(redis, email, f)} :
        /\ redis' = r.store
        /\ last' = [op |-> "UserPreferences.pop", name |-> email, f |-> f,
                    res |-> r.res]
        /\ UNCHANGED <<events, disasters, geo, pipe, tasks, worker>>

ClientSessionCreate(email, f) ==
    \E r \in {ClientSession_create(redis, "session-1", email, f)} :
        /\ redis' = r.store
        /\ last' = [op |-> "ClientSession.create", name |-> email, f |-> f,
                    res |-> r.res]
        /\ UNCHANGED <<events, disasters, geo, pipe, tasks, worker>>

ClientSessionDelete(session_id, f) ==
    \E r \in {ClientSession_delete(redis, session_id, f)} :
        /\ redis' = r.store
        /\ last' = [op |-> "ClientSession.delete", name |-> session_id[2], f |-> f,
                    res |-> r.res]
        /\ UNCHANGED <<events, disasters, geo, pipe, tasks, worker>>

ServiceCredentialStorageSave(email, f) ==
    \E r \in {ServiceCredentialStorage_save(redis, email, f)} :
        /\ redis' = r.store
        /\ last' = [op |-> "ServiceCredentialStorage.save", name |-> email, f |-> f,
                    res |-> r.res]
        /\ UNCHANGED <<events, disasters, geo, pipe, tasks, worker>>

ServiceCredentialStorageDelete(email, f) ==
    \E r \in {ServiceCredentialStorage_delete(redis, email, f)} :
        /\ redis' = r.store
        /\ last' = [op |-> "ServiceCredentialStorage.delete", name |-> email, f |-> f,
                    res |-> r.res]
        /\ UNCHANGED <<events, disasters, geo, pipe, tasks, worker>>

NextKeys ==
    \/ \E info \in ChannelInfos, f \in RedisFaults : EventChannelsCreate(info, f)
    \/ \E ch \in ChannelIds, f \in RedisFaults : EventChannelsGet(ch, f)
    \/ \E ch \in ChannelIds, f \in RedisFaults : EventChannelsDelete(ch, f)
    \/ \E c \in Calendars, ch \in ChannelIds, f \in RedisFaults :
          WatchedCalendarsCreate(c, ch, f)
    \/ \E c \in Calendars, f \in RedisFaults : WatchedCalendarsDelete(c, f)
    \/ \E n \in KeyNames, f \in RedisFaults : UserPreferencesCreate(n, f)
    \/ \E n \in KeyNames, f \in RedisFaults : UserPreferencesPop(n, f)
    \/ \E n \in KeyNames, f \in RedisFaults : ClientSessionCreate(n, f)
    \/ \E sid \in SessionIds, f \in RedisFaults : ClientSessionDelete(sid, f)
    \/ \E n \in KeyNames, f \in RedisFaults : ServiceCredentialStorageSave(n, f)
    \/ \E n \in KeyNames, f \in RedisFaults : ServiceCredentialStorageDelete(n, f)

SpecKeys == Init /\ [][NextKeys]_vars

\* the effect algebra and the pipelines on their own: a chain of then
\* calls grown one call at a time, up to MaxChain calls
MaxChain == 3

\* an Err or a Nothing
IsFailure(r) ==
    IF "kind" \in DOMAIN r THEN r.kind = "Err" ELSE r.opt = "Nothing"

\* a chain starts from a Result or an Option
ChainStart(r) ==
    /\ last' = [op |-> "then", res |-> r, steps |-> 0, invoked |-> 0,
                first |-> IF IsFailure(r) THEN <<r>> ELSE <<>>, at |-> 0]
    /\ UNCHANGED <<events, disasters, redis, geo, pipe, tasks, worker>>

\* one more .then(func) or .then_async(func) on the chain so far; `first`
\* holds the first failure the chain met and `at` the number of functions
\* that had been called by then
ChainThen(func, async) ==
    /\ last.op = "then"
    /\ last.steps < MaxChain
    /\ \E r \in {then(last.res, func, async)} :
          last' = [op |-> "then", res |-> r.res, steps |-> last.steps + 1,
                   invoked |-> last.invoked + (IF r.invoked THEN 1 ELSE 0),
                   first |-> IF last.first # <<>> THEN last.first
                             ELSE IF IsFailure(r.res) THEN <<r.res>> ELSE <<>>,
                   at |-> IF last.first # <<>> THEN last.at
                          ELSE last.invoked + (IF r.invoked THEN 1 ELSE 0)]
    /\ UNCHANGED <<events, disasters, redis, geo, pipe, tasks, worker>>

\* a call of a function wrapped by as_result, by as_async_result, or handed
\* to call_as_result or call_as_async_result
Wrappers == {"as_result", "as_async_result", "call_as_result", "call_as_async_result"}

CallWrapped(wrapper, exceptions, outcome) ==
    /\ last' = [op |-> "wrapped", wrapper |-> wrapper, exceptions |-> exceptions,
                outcome |-> outcome,
                res |-> CASE wrapper = "as_result" -> as_result(exceptions, outcome)
                          [] wrapper = "as_async_result" ->
                                as_async_result(exceptions, outcome)
                          [] wrapper = "call_as_result" ->
                                call_as_result(exceptions, outcome)
                          [] wrapper = "call_as_async_result" ->
                                call_as_async_result(exceptions, outcome)]
    /\ UNCHANGED <<events, disasters, redis, geo, pipe, tasks, worker>>

\* the sources of the pipelines: sequences of up to MaxLen items
MaxLen == 2

BoundedSeq(S, n) == UNION {[1..k -> S] : k \in 0..n}

\* the items collected
CollectItems == {PyInt(0), PyBool(FALSE), PyStr(""), PyList(<<>>)}

CollectionTypes == {"list", "tuple", "set"}

Pipelines == {"Pipeline", "AsyncPipeline"}

CollectAs(pipeline, items, class_) ==
    /\ last' = [op |-> "collect_as", pipeline |-> pipeline, items |-> items,
                class_ |-> class_,
                res |-> IF pipeline = "Pipeline"
                        THEN Pipeline_collect_as(items, class_)
                        ELSE AsyncPipeline_collect_as(items, class_)]
    /\ UNCHANGED <<events, disasters, redis, geo, pipe, tasks, worker>>

\* the items mapped, and what a transformer yields for an item
FilterSources == {1, 2}

Transformed ==
    {Nothing, Err("ValidationError"), PyNone, PyInt(0), PyInt(1),
     PyBool(FALSE), PyStr(""), PyList(<<>>)}

Transformers == [FilterSources -> Transformed]

FilterMap(pipeline, items, func, iscoroutinefunction) ==
    /\ pipeline = "Pipeline" => ~iscoroutinefunction
    /\ last' = [op |-> "filter_map", pipeline |-> pipeline, items |-> items,
                func |-> func,
                res |-> IF pipeline = "Pipeline"
                        THEN Pipeline_filter_map(items, func)
                        ELSE AsyncPipeline_filter_map(items, func,
                                                      iscoroutinefunction)]
    /\ UNCHANGED <<events, disasters, redis, geo, pipe, tasks, worker>>

NextPipeline ==
    \/ \E r \in ChainOutcomes : ChainStart(r)
    \/ \E func \in ChainFuncs, async \in BOOLEAN : ChainThen(func, async)
    \/ \E p \in Pipelines, items \in BoundedSeq(CollectItems, MaxLen),
          class_ \in CollectionTypes : CollectAs(p, items, class_)
    \/ \E p \in Pipelines, items \in BoundedSeq(FilterSources, MaxLen),
          func \in Transformers, co \in BOOLEAN : FilterMap(p, items, func, co)
    \/ \E w \in Wrappers, S \in DeclaredSets, o \in FuncOutcomes :
          CallWrapped(w, S, o)

SpecPipeline == Init /\ [][NextPipeline]_vars

\* a pipeline built and driven one step at a time: up to MaxStages stages
\* over a source of up to MaxLen items
MaxStages == 2

PipeInts == {PyInt(0), PyInt(1)}

\* the items of a pipeline of Results
ResultItems == {Ok(PyInt(1)), Err("first error"), Err("second error")}

PipeSources == BoundedSeq(PipeInts, MaxLen) \cup BoundedSeq(ResultItems, MaxLen)

\* the functions handed to map, filter and filter_map: the value itself, and
\* 1 for 0 and 0 for 1, which is a coroutine function when it is handed to
\* an AsyncPipeline
Same == [v \in PipeInts |-> v]
Flip == [v \in PipeInts |-> PyInt(1 - v.val)]

StageFuncs == {Same, Flip}

StageOps == {"map", "filter", "filter_map"}

Terminals == {"collect_as", "unwrap_as", "iterate"}

\* a pipeline is built at the start and after the one before it was consumed
Construct(kind, source) ==
    /\ pipe.phase = "done"
    /\ pipe' = new_pipeline(kind, source)
    /\ last' = [op |-> "pipeline"]
    /\ UNCHANGED <<events, disasters, redis, geo, tasks, worker>>

Compose(op, func, iscoroutinefunction) ==
    /\ pipe.kind # "none"
    /\ pipe.phase = "built"
    /\ Len(pipe.stages) < MaxStages
    /\ \A i \in 1..Len(pipe.source) : pipe.source[i] \in PipeInts
    /\ iscoroutinefunction <=> (pipe.kind = "AsyncPipeline" /\ func = Flip)
    /\ pipe' = compose(pipe, op, func, iscoroutinefunction)
    /\ last' = [op |-> "pipeline"]
    /\ UNCHANGED <<events, disasters, redis, geo, tasks, worker>>

\* collect_as, unwrap_as (of an AsyncPipeline of Results) or a for loop
\* starts to consume the pipeline
Drive(terminal) ==
    /\ pipe.kind # "none"
    /\ pipe.phase = "built"
    /\ terminal = "unwrap_as" =>
          /\ pipe.kind = "AsyncPipeline"
          /\ \A i \in 1..Len(pipe.source) : pipe.source[i] \in ResultItems
    /\ pipe' = [pipe EXCEPT !.phase = "driven", !.terminal = terminal]
    /\ last' = [op |-> "pipeline"]
    /\ UNCHANGED <<events, disasters, redis, geo, tasks, worker>>

Request ==
    /\ pipe.kind # "none"
    /\ may_request(pipe)
    /\ pipe.pulled < Len(pipe.source)
    /\ pipe' = request(pipe)
    /\ last' = [op |-> "pipeline"]
    /\ UNCHANGED <<events, disasters, redis, geo, tasks, worker>>

Work ==
    /\ pipe.kind # "none"
    /\ pipe.phase = "driven"
    /\ pipe.flight # <<>>
    /\ pipe.flight[1].stage <= Len(pipe.stages)
    /\ pipe' = work(pipe)
    /\ last' = [op |-> "pipeline"]
    /\ UNCHANGED <<events, disasters, redis, geo, tasks, worker>>

Deliver ==
    /\ pipe.kind # "none"
    /\ pipe.phase = "driven"
    /\ pipe.flight # <<>>
    /\ pipe.flight[1].stage > Len(pipe.stages)
    /\ \E p \in {deliver(pipe)} :
          /\ pipe' = p
          /\ last' = IF p.phase = "done"
                     THEN [op |-> p.terminal,
                           res |-> as_async_result({"UnwrapError"},
                                                   unwrap(pipe.flight[1].value))]
                     ELSE [op |-> "pipeline"]
    /\ UNCHANGED <<events, disasters, redis, geo, tasks, worker>>

\* the source has no more items: StopIteration reaches the consumer
Exhaust ==
    /\ pipe.kind # "none"
    /\ pipe.phase = "driven"
    /\ pipe.flight = <<>>
    /\ pipe.pulled = Len(pipe.source)
    /\ pipe' = [pipe EXCEPT !.phase = "done"]
    /\ last' = [op |-> pipe.terminal, res |-> driven_result(pipe)]
    /\ UNCHANGED <<events, disasters, redis, geo, tasks, worker>>

NextLazy ==
    \/ \E kind \in Pipelines, source \in PipeSources : Construct(kind, source)
    \/ \E op \in StageOps, func \in StageFuncs, co \in BOOLEAN : Compose(op, func, co)
    \/ \E terminal \in Terminals : Drive(terminal)
    \/ Request
    \/ Work
    \/ Deliver
    \/ Exhaust

SpecLazy == Init /\ [][NextLazy]_vars

\* the pipelines that can be made of the source of p besides p itself: one
\* stage on a source of integers, none on a source of Results
Derived(p) ==
    IF p.kind = "none" THEN {}
    ELSE {p.stages} \cup
    IF \A i \in 1..Len(p.source) : p.source[i] \in PipeInts
    THEN {<<[op |-> op, func |-> func,
             iscoroutinefunction |-> (p.kind = "AsyncPipeline" /\ func = Flip)]>> :
            op \in StageOps, func \in StageFuncs}
    ELSE {}

\* collect_as or a for loop on a pipeline whose source was consumed before,
\* once
Redrive(stages, terminal) ==
    /\ pipe.kind # "none"
    /\ pipe.phase = "done"
    /\ ~pipe.again
    /\ stages \in Derived(pipe)
    /\ pipe' = redrive(pipe, stages, terminal)
    /\ last' = [op |-> "pipeline"]
    /\ UNCHANGED <<events, disasters, redis, geo, tasks, worker>>

NextRestart ==
    \/ NextLazy
    \/ \E stages \in Derived(pipe), terminal \in {"collect_as", "iterate"} :
          Redrive(stages, terminal)

SpecRestart == Init /\ [][NextRestart]_vars

\* the schedule query on its own: events are stored with their start, and
\* the query is made at some tick of the first day for up to MaxDays days
MaxDays == 1

Nows == 0..(TicksPerDay - 1)

Starts == 0..((MaxDays + 2) * TicksPerDay - 1)

StoreScheduled(event, start) ==
    \E r \in {create_or_update_event(events, [event EXCEPT !.start = start], "none")} :
        /\ events' = r.coll
        /\ last' = [op |-> "create_or_update_event", res |-> r.res]
        /\ UNCHANGED <<disasters, redis, geo, pipe, tasks, worker>>

ListEventsScheduledIn(now, days, tracked) ==
    /\ last' = [op |-> "list_events_scheduled_in", now |-> now, days |-> days,
                tracked |-> tracked,
                res |-> list_events_scheduled_in(events, now, days, tracked)]
    /\ UNCHANGED <<events, disasters, redis, geo, pipe, tasks, worker>>

NextSchedule ==
    \/ \E e \in {c \in CalendarEvent : c.summary = 1}, t \in Starts : StoreScheduled(e, t)
    \/ \E now \in Nows, days \in 0..MaxDays, tracked \in BOOLEAN :
          ListEventsScheduledIn(now, days, tracked)

SpecSchedule == Init /\ [][NextSchedule]_vars

\* the feeds of the handlers' runs: open hazards, all of them by New York
HandlerFeeds ==
    {feed \in EonetFeeds :
        \A i \in HazardIds :
            feed[i] = Nothing
                \/ (feed[i].closed = "null" /\ feed[i].point = InsideNewYork)}

\* POST /scheduled_check, the pipeline over the selected events, one event
\* through every stage before the next: map(dt.check_calendar_event), whose
\* exception ends the request; filter_map(e.something()), which drops
\* Nothing; map(_find_and_notify), which raises when the recipient's
\* credentials cannot be had and else gives the text of what notify returned
RECURSIVE scheduled_scan(_, _, _, _, _)
scheduled_scan(hazards, listed, env, notified, body) ==
    IF listed = <<>> THEN [res |-> Ok(body), notified |-> notified]
    ELSE Only({
            IF "kind" \in DOMAIN checked
            THEN [res |-> checked, notified |-> notified]
            ELSE IF ~IsSomething(checked)
            THEN scheduled_scan(hazards, Tail(listed), env, notified, body)
            ELSE IF env["credentials"]
            THEN [res |-> Raise("HTTPException"), notified |-> notified]
            ELSE LET sent == notify(checked.value, env["notify"])
                 IN  scheduled_scan(hazards, Tail(listed), env,
                                    IF IsOk(sent) THEN notified \cup {Head(listed).id}
                                    ELSE notified,
                                    Append(body, IF IsOk(sent) THEN sent.value
                                                 ELSE sent.error)) :
            checked \in {check_calendar_event(hazards, Head(listed), Mongo(env["scan"]))}})

SCHEDULED_DAYS == 14

CheckCollaborators == {"scan", "credentials", "notify"}

\* POST /scheduled_check at the instant now: the untracked events of the
\* next SCHEDULED_DAYS days are correlated and the alerts are sent; nothing
\* is written
scheduled_check(coll, hazards, now, env) ==
    LET listed == list_events_scheduled_in(coll, now, SCHEDULED_DAYS, FALSE)
    IN  IF IsOk(listed)
        THEN Only({[resp |-> IF IsOk(scan.res) THEN "200" ELSE "raise",
                    notified |-> scan.notified] :
                     scan \in {scheduled_scan(hazards, listed.value, env, {}, <<>>)}})
        ELSE [resp |-> "HTTPException", notified |-> {}]

\* the alerts delivered by the request before this one, when that was a
\* POST /scheduled_check too (nothing was stored or deleted in between)
DeliveredJustBefore ==
    IF last.op = "scheduled_check" THEN last.notified ELSE {}

ScheduledCheck(now, env) ==
    \E r \in {scheduled_check(events, disasters, now, env)} :
        /\ last' = [op |-> "scheduled_check", resp |-> r.resp,
                    notified |-> r.notified, earlier |-> DeliveredJustBefore]
        /\ UNCHANGED <<events, disasters, redis, geo, pipe, tasks, worker>>

\* the scheduled check on its own, over stored events of several starts and
\* the hazards of the handlers' feeds
NextCheck ==
    \/ \E e \in {c \in RemoteEvents : c.summary = 1}, t \in Starts : StoreScheduled(e, t)
    \/ \E feed \in HandlerFeeds : ProcessEonetEvents(feed, "none")
    \/ \E now \in Nows, env \in Envs(CheckCollaborators) : ScheduledCheck(now, env)

SpecCheck == Init /\ [][NextCheck]_vars

\* the handlers, the hazard ingestion, and the reconciler's mark-tracked
\* operation (save_as_tracked), which no handler calls
NextHandlers ==
    \/ \E c \in Calendars, u \in Users, l \in ListedEvents, ch \in ChannelIds,
          env \in Envs(WatchCollaborators) : Watch(c, u, l, ch, env)
    \/ \E c \in Calendars, f \in RedisFaults, sf \in BOOLEAN : Unwatch(c, f, sf)
    \/ \E in \in MockInputs : ListenCalendarEventsMock(in)
    \/ \E ch \in ChannelIds, env \in Envs(ListenCollaborators) :
          \E in \in ListenInputs(ch, env) : ListenCalendarEvents(ch, in, env)
    \/ \E e \in RemoteEvents, f \in Faults : SaveAsTracked(e, f)
    \/ \E feed \in HandlerFeeds, f \in Faults : ProcessEonetEvents(feed, f)

----------------------------------------------------------------------------
(* celery/tasks.py: tasks.eonet_updates, which the beat schedule starts     *)
(* every 12 hours.  One step per request of the loop.                       *)

\* for _ in range(5):  # retries
RETRIES == 5

\* what requests.post gives: a response with its status, or an exception
\* when the API cannot be reached
Responses == {Ok(200), Ok(204), Ok(404), Ok(500), Raise("ConnectionError")}

\* Response.ok: the status is below 400
Response_ok(response) == response.value < 400

\* (mutation of retries_after: the loop does not break on an ok response)
retries_after_ignoring_ok(i, response) == i + 1 < RETRIES

\* the loop goes round again after request i (from 0) got this response:
\* no break, and range(5) is not used up
retries_after(i, response) == ~Response_ok(response) /\ i + 1 < RETRIES

\* the worker starts fetch_disaster_event_updates
FetchDisasterEventUpdates ==
    /\ worker.phase # "running"
    /\ worker' = [phase |-> "running", i |-> 0, sent |-> <<>>]
    /\ UNCHANGED <<events, disasters, redis, last, geo, pipe, tasks>>

\* one turn of the loop: requests.post(...), then `if response.ok: break`;
\* an exception of requests.post ends the task
Post(response) ==
    /\ worker.phase = "running"
    /\ worker' = [phase |-> IF response.kind = "Raise" THEN "raised"
                            ELSE IF retries_after(worker.i, response) THEN "running"
                            ELSE "done",
                  i |-> IF response.kind # "Raise" /\ retries_after(worker.i, response)
                        THEN worker.i + 1 ELSE worker.i,
                  sent |-> Append(worker.sent, response)]
    /\ UNCHANGED <<events, disasters, redis, last, geo, pipe, tasks>>

NextCelery ==
    \/ FetchDisasterEventUpdates
    \/ \E response \in Responses : Post(response)

SpecCelery == Init /\ [][NextCelery]_vars

----------------------------------------------------------------------------
(* the reconciler's claims, checked under SpecTracker                      *)

\* the stored document d holds exactly the fields of the event m, tracked aside
SameButTracked(d, m) ==
    /\ DOMAIN d = CalendarEventFields
    /\ d._id = m.id
    /\ d.summary = m.summary
    /\ d.location = m.location
    /\ d.coordinates = m.coordinates
    /\ d.creator = m.creator
    /\ d.start = m.start
    /\ d.end = m.end
    /\ d.link = m.link

\* a sync_event call whose lookup and write met a healthy storage
HealthySync == last.op = "sync_event" /\ last.fl = "none" /\ last.fw = "none"

\* C1: after sync_event on an id that had a stored record (lookup and upsert
\* succeeding), the persisted record equals the incoming event in every field
\* except tracked, which is the tracked value stored before the call, and the
\* call returns Ok of that merged record.
C1_MergeKeepsTracked ==
    (HealthySync /\ IsSomething(last.pre)) =>
        /\ last.id \in DOMAIN events
        /\ SameButTracked(events[last.id], last.arg)
        /\ events[last.id].tracked = last.pre.value.tracked
        /\ last.res = Ok([last.arg EXCEPT !.tracked = last.pre.value.tracked])

\* C1 witness: a stored tracked=true record was reconciled with an incoming
\* event of another summary and tracked=false
C1_Witness ==
    /\ HealthySync /\ IsSomething(last.pre)
    /\ last.pre.value.tracked = TRUE
    /\ last.arg.tracked = FALSE
    /\ last.arg.summary # last.pre.value.summary
    /\ events[last.id].summary = last.arg.summary

\* C3: after sync_event on an id with no stored record (storage healthy), a
\* record with that id is stored, it equals the incoming event with
\* tracked=false, and the call returns Ok of the incoming event.
C3_CreateOnAbsent ==
    (HealthySync /\ last.pre = Nothing /\ last.arg.tracked = FALSE) =>
        /\ last.id \in DOMAIN events
        /\ SameButTracked(events[last.id], last.arg)
        /\ events[last.id].tracked = FALSE
        /\ last.res = Ok(last.arg)

\* C4: the second of two sync_event calls in a row with the same incoming
\* event returns what the first returned and leaves the persisted record of
\* the id as the first call left it.
C4_IdempotentReconcile ==
    (last.op = "sync_event" /\ last.again) =>
        /\ last.res.kind # "Raise"
        /\ last.res = last.first
        /\ IsSomething(last.pre)
        /\ Stored(events, last.id) = last.pre

\* C5: a failed lookup is returned by sync_event and nothing is written; a
\* failed insert or upsert is returned as-is and the stored state of the id
\* is what it was before the call.
C5_FailuresReturned ==
    (last.op = "sync_event") =>
        /\ (last.fl # "none") =>
              (last.res.kind = "Err" /\ Stored(events, last.id) = last.pre)
        /\ (last.fl = "none" /\ ~IsOk(last.res)) =>
              (last.res.kind = "Err" /\ Stored(events, last.id) = last.pre)

----------------------------------------------------------------------------
(* the correlator's claims, checked under SpecCorrelator                   *)

\* the ids of the stored hazards that are active and whose lat and lon lie
\* between the southwest and the northeast corner of the rectangle, ends included
MatchingHazards(rect) ==
    {k \in DOMAIN disasters :
        /\ disasters[k].active = TRUE
        /\ rect.southwest[1] <= disasters[k].lat /\ disasters[k].lat <= rect.northeast[1]
        /\ rect.southwest[2] <= disasters[k].lon /\ disasters[k].lon <= rect.northeast[2]}

\* the ids of the hazards in a tuple of DisasterEvent
IdsOf(dis) == {dis[i].id : i \in 1..Len(dis)}

\* the ids of the hazards a scan returned (none for Nothing)
ScannedIds(res) ==
    IF "opt" \in DOMAIN res /\ IsSomething(res) THEN IdsOf(res.value) ELSE {}

HealthyCheck == last.op = "check_calendar_event" /\ last.f = "none"

HealthyScan == last.op = "scan_active_disasters" /\ last.f = "none"

\* C7: check_calendar_event returns Something(alert) exactly when the hazard
\* query of the event's rectangle yields at least one hazard, the alert then
\* having recipient = event.creator, event = the event, dangerous = true and
\* a non-empty disasters collection; with zero hazards it returns Nothing.
C7_SomethingIffHazards ==
    HealthyCheck =>
        IF MatchingHazards(geo[last.arg.coordinates]) # {}
        THEN /\ "opt" \in DOMAIN last.res
             /\ IsSomething(last.res)
             /\ last.res.value.recipient = last.arg.creator
             /\ last.res.value.event = last.arg
             /\ last.res.value.dangerous = TRUE
             /\ Len(last.res.value.disasters) >= 1
        ELSE last.res = Nothing

\* C8: the rectangle test of scan_active_disasters is inclusive at both ends
\* of both axes: an active hazard on the northeast corner, on the southwest
\* corner or on an edge of the rectangle is in the result, and an active
\* hazard beyond a corner on either axis is not.
C8_InclusiveRectangle ==
    HealthyScan =>
        \A k \in DOMAIN disasters :
            LET lat == disasters[k].lat
                lon == disasters[k].lon
                ne == last.rect.northeast
                sw == last.rect.southwest
                onCorner == <<lat, lon>> = ne \/ <<lat, lon>> = sw
                onEdge == \/ lat \in {sw[1], ne[1]} /\ sw[2] <= lon /\ lon <= ne[2]
                          \/ lon \in {sw[2], ne[2]} /\ sw[1] <= lat /\ lat <= ne[1]
                beyond == lat > ne[1] \/ lat < sw[1] \/ lon > ne[2] \/ lon < sw[2]
            IN  disasters[k].active = TRUE =>
                    /\ (onCorner \/ onEdge) => k \in ScannedIds(last.res)
                    /\ (beyond /\ ~onCorner) => k \notin ScannedIds(last.res)

\* C9: the disasters of the alert check_calendar_event returns are exactly
\* the stored active hazards inside the rectangle of the bearing-225 and
\* bearing-45 points: every match is in the alert, however many there are,
\* and nothing else is.
C9_AlertHoldsEveryMatch ==
    HealthyCheck =>
        LET matching == MatchingHazards(geo[last.arg.coordinates])
        IN  IF matching = {} THEN last.res = Nothing
            ELSE /\ "opt" \in DOMAIN last.res
                 /\ IsSomething(last.res)
                 /\ IdsOf(last.res.value.disasters) = matching
                 /\ Len(last.res.value.disasters) = Cardinality(matching)

\* two coordinates, in hundredths of a degree, at most half a degree apart
Roughly(a, b) == a - b <= 50 /\ b - a <= 50

\* a scan of the rectangle around (40.0, -74.0) that met a healthy storage
NewYorkScan == HealthyScan /\ last.arg = NewYork

\* an active hazard is stored at the point, and the scan returned it
StoredAt(point) ==
    {k \in DOMAIN disasters :
        disasters[k].active = TRUE /\ <<disasters[k].lat, disasters[k].lon>> = point}

\* C10 (as stated): for an event at (40.0, -74.0), threshold 500 km, bearings
\* 45 and 225, the rectangle spans roughly (44.5, -67.8) to (35.5, -80.2); an
\* active hazard at (40.0, -70.0) is in the result, one at (20.0, -70.0) is not.
C10_RectangleAsStated ==
    NewYorkScan =>
        /\ Roughly(last.rect.northeast[1], 4450) /\ Roughly(last.rect.northeast[2], -6780)
        /\ Roughly(last.rect.southwest[1], 3550) /\ Roughly(last.rect.southwest[2], -8020)
        /\ StoredAt(InsideNewYork) \subseteq ScannedIds(last.res)
        /\ StoredAt(OutsideNewYork) \cap ScannedIds(last.res) = {}

\* C10 (amended): for an event at (40.0, -74.0), threshold 500 km, bearings 45
\* and 225, the rectangle spans roughly (43.1, -69.6) to (36.8, -78.0); an
\* active hazard at (40.0, -70.0) is in the result, one at (20.0, -70.0) is not.
C10_RectangleAmended ==
    NewYorkScan =>
        /\ Roughly(last.rect.northeast[1], 4310) /\ Roughly(last.rect.northeast[2], -6960)
        /\ Roughly(last.rect.southwest[1], 3680) /\ Roughly(last.rect.southwest[2], -7800)
        /\ StoredAt(InsideNewYork) \subseteq ScannedIds(last.res)
        /\ StoredAt(OutsideNewYork) \cap ScannedIds(last.res) = {}

\* C10 witness: the rectangle around (40.0, -74.0) was scanned with one active
\* hazard stored at (40.0, -70.0) and one at (20.0, -70.0); the first came back
C10_Witness ==
    /\ NewYorkScan
    /\ StoredAt(InsideNewYork) # {}
    /\ StoredAt(OutsideNewYork) # {}
    /\ ScannedIds(last.res) = StoredAt(InsideNewYork)

----------------------------------------------------------------------------
(* the handlers' claims, checked under Spec                                *)

\* the latest request was a remote-driven one: the initial scan of POST
\* /watch, or a webhook delivery
RemoteDriven ==
    last.op \in {"watch", "listen_calendar_events", "listen_calendar_events_mock"}

\* C2: no remote-driven request (the initial scan of POST /watch, a webhook
\* delivery with state exists or sync) turns the tracked bit of a stored
\* event from true to false; only save_as_tracked or a delete changes it.
C2_TrackedSurvivesRemoteUpdates == RemoteDriven => last.cleared = {}

\* the calendar-to-channel entry c -> ch is in the registry
CalendarEntry(store, c, ch) ==
    /\ <<"CALENDAR:", c>> \in DOMAIN store
    /\ store[<<"CALENDAR:", c>>] = [py |-> "str", val |-> ch]

\* the channel-to-owner entry ch -> {user_email: u, calendar_id: c} is in
\* the registry
ChannelEntry(store, ch, u, c) ==
    /\ <<"PREFERENCES:", ch>> \in DOMAIN store
    /\ store[<<"PREFERENCES:", ch>>] =
          [py |-> "hash", val |-> [user_email |-> u, calendar_id |-> c]]

\* a POST /watch that was answered without an error: the 201 message, or the
\* 200 of a handler that returned None
WatchSucceeded == last.op = "watch" /\ last.resp \in {"201", "None"}

\* C11: after POST /watch for calendar c by user u is answered with success
\* for channel ch, the calendar-to-channel entry c -> ch and the
\* channel-to-owner entry ch -> {user_email: u, calendar_id: c} both exist;
\* success is never answered with only one of the two written
C11_BothEntriesOnSuccess ==
    WatchSucceeded =>
        /\ CalendarEntry(redis, last.calendar_id, last.channel_id)
        /\ ChannelEntry(redis, last.channel_id, last.user_email, last.calendar_id)

----------------------------------------------------------------------------
(* the registry's claims, checked under SpecRegistry                       *)

\* an EventChannels.get that met a healthy redis
HealthyChannelGet == last.op = "EventChannels.get" /\ last.f = "none"

\* C12: EventChannels.get(channel_id) returns Ok(Something(record)) with the
\* channel id, user_email and calendar_id that EventChannels.create stored
\* for that channel id, and Ok(Nothing), not an error, for a channel id that
\* has no record
C12_GetReturnsWhatCreateStored ==
    HealthyChannelGet =>
        IF <<"PREFERENCES:", last.channel_id>> \in DOMAIN redis
        THEN /\ IsOkSomething(last.res)
             /\ last.res.value.value.id = last.channel_id
             /\ ChannelEntry(redis, last.channel_id,
                             last.res.value.value.user_email,
                             last.res.value.value.calendar_id)
        ELSE last.res = Ok(Nothing)

\* a POST /unwatch that met a healthy redis
HealthyUnwatch == last.op = "unwatch" /\ last.f = "none"

\* the calendar of the latest POST /unwatch was watched when it arrived
WasWatched == <<"CALENDAR:", last.calendar_id>> \in DOMAIN last.before

\* C13: after POST /unwatch for a calendar that is currently watched
\* completes, neither the calendar-to-channel entry of the calendar nor the
\* channel-to-owner entry of its channel id remains in the registry
C13_UnwatchRemovesBothEntries ==
    (HealthyUnwatch /\ WasWatched) =>
        /\ <<"CALENDAR:", last.calendar_id>> \notin DOMAIN redis
        /\ <<"PREFERENCES:", last.before[<<"CALENDAR:", last.calendar_id>>].val>>
              \notin DOMAIN redis

\* C14: closing a calendar id that has no open channel is answered with
\* success, not with a failure, and leaves the registry unchanged (so closing
\* the same calendar twice succeeds both times)
C14_CloseIsIdempotent ==
    (HealthyUnwatch /\ ~WasWatched) =>
        /\ last.resp \in {"204", "None"}
        /\ redis = last.before

\* a delivery to POST /listen_calendar_events with resource state exists or
\* sync that met a healthy redis
HealthyDelivery ==
    /\ last.op = "listen_calendar_events"
    /\ last.state \in {"exists", "sync"}
    /\ last.f = "none"

\* C15: on a delivery with resource state exists or sync the channel registry
\* is resolved first: for a channel id with a record the reconciler runs and
\* then the correlator, an alert is notified once and the delivery is
\* answered as success; for a channel id with no record neither runs and the
\* delivery is answered 404
C15_DeliveryResolvesChannelFirst ==
    HealthyDelivery =>
        IF <<"PREFERENCES:", last.channel_id>> \in DOMAIN redis
        THEN last.resp = "204"
        ELSE last.resp = "404" /\ events = last.before

----------------------------------------------------------------------------
(* the claims of the effect algebra and of the pipelines, checked under    *)
(* SpecPipeline                                                            *)

\* C16: a chain of then/then_async calls short-circuits on the first
\* failure: Err.then(f), Err.then_async(f), Nothing.then(f) and
\* Nothing.then_async(f) return the same Err or Nothing without calling f,
\* so no function after the first one that returned Err is called and the
\* result of the chain is that first Err
C16_ChainShortCircuits ==
    (last.op = "then" /\ last.first # <<>>) =>
        /\ last.res = last.first[1]
        /\ last.invoked = last.at

\* a function of the chain returned Err and then was called on that Err
C16_Witness ==
    /\ last.op = "then"
    /\ last.first # <<>>
    /\ "kind" \in DOMAIN last.first[1]
    /\ last.at >= 1
    /\ last.steps > last.at

\* what a wrapper that converts exactly the declared classes gives
ExactlyDeclared(exceptions, outcome) ==
    IF "returns" \in DOMAIN outcome THEN Ok(outcome.returns)
    ELSE IF caught_by(outcome.raises, exceptions) THEN Err(outcome.raises)
    ELSE Raise(outcome.raises)

\* C17: a function wrapped by as_result(S) or as_async_result(S) with a
\* non-empty S gives Ok(value) when it returns value, Err(e) when it raises
\* an e of a kind in S, and lets every exception of a kind not in S through;
\* the synchronous and the asynchronous wrapper do the same
C17_ConvertsExactlyDeclared ==
    (/\ last.op = "wrapped"
     /\ last.wrapper \in {"as_result", "as_async_result"}
     /\ last.exceptions # {}) =>
        last.res = ExactlyDeclared(last.exceptions, last.outcome)

\* C18: the wrappers are never widened to catch-all: for every declared set,
\* the empty one of as_result() and call_as_result included, an exception
\* outside the set goes on to the caller and is not turned into an Err
C18_NeverCatchAll ==
    (/\ last.op = "wrapped"
     /\ "raises" \in DOMAIN last.outcome
     /\ ~caught_by(last.outcome.raises, last.exceptions)) =>
        last.res = Raise(last.outcome.raises)

\* the collection holds all the items: a list or a tuple holds them in
\* order, a set holds an equal of every item and nothing else
HoldsAll(collection, items) ==
    IF collection.py = "set"
    THEN /\ \A i \in 1..Len(items) : \E x \in collection.val : py_eq(x, items[i])
         /\ \A x \in collection.val : \E i \in 1..Len(items) : x = items[i]
    ELSE collection.val = items

\* collect_as gave Nothing for no item, and Something of a collection of the
\* requested kind holding all the items otherwise
NothingOrAll ==
    IF Len(last.items) = 0 THEN last.res = Nothing
    ELSE /\ "opt" \in DOMAIN last.res
         /\ IsSomething(last.res)
         /\ last.res.value.py = last.class_
         /\ len(last.res.value) > 0
         /\ HoldsAll(last.res.value, last.items)

\* C19 as stated: Pipeline.collect_as and AsyncPipeline.collect_as return,
\* for every source and every container kind (list, tuple, set), Nothing
\* when the collection is empty and Something(collection) of the requested
\* kind holding all the elements otherwise, never Something of a zero-length
\* collection
C19_CollectAsStated == last.op = "collect_as" => NothingOrAll

\* every item has a hash when the requested kind is set
SetOfHashables ==
    last.class_ = "set" => \A i \in 1..Len(last.items) : hashable(last.items[i])

\* C19 amended: the same for list and tuple, and for set when every element
\* has a hash; set raises TypeError for a source with an element that has
\* none
C19_CollectAsAmended ==
    last.op = "collect_as" =>
        IF SetOfHashables THEN NothingOrAll ELSE last.res = Raise("TypeError")

\* an AsyncPipeline of two equal items, 0 and False, collected as a set of one
C19_Witness ==
    /\ last.op = "collect_as"
    /\ last.pipeline = "AsyncPipeline"
    /\ last.class_ = "set"
    /\ last.items = <<PyInt(0), PyBool(FALSE)>>
    /\ "opt" \in DOMAIN last.res
    /\ IsSomething(last.res)
    /\ len(last.res.value) = 1

\* the values that are neither Nothing nor an Err, in order
RECURSIVE drop_absent(_)
drop_absent(mapped) ==
    IF mapped = <<>> THEN <<>>
    ELSE IF Head(mapped) = Nothing
              \/ ("kind" \in DOMAIN Head(mapped) /\ Head(mapped).kind = "Err")
    THEN drop_absent(Tail(mapped))
    ELSE <<Head(mapped)>> \o drop_absent(Tail(mapped))

\* C20: filter_map on Pipeline and AsyncPipeline drops exactly the elements
\* for which the transformer yields Nothing or an Err; every other value,
\* 0, False, an empty string and an empty collection included, is kept, as
\* the transformed value and in input order
C20_DropsExactlyAbsentAndErr ==
    last.op = "filter_map" =>
        last.res = drop_absent([i \in 1..Len(last.items) |-> last.func[last.items[i]]])

----------------------------------------------------------------------------
(* the claims of the pipelines as chains of iterators, checked under       *)
(* SpecLazy                                                                *)

\* the number of calls of the function of stage k on source item i
CallsOf(k, i) ==
    Cardinality({n \in 1..Len(pipe.calls) : pipe.calls[n] = <<k, i>>})

\* C21: constructing a Pipeline or an AsyncPipeline and composing map,
\* filter and filter_map on it performs no work: no item is pulled from the
\* source and no function is called until collect_as, unwrap_as or iteration
\* drives it; when driven, each function is called at most once per source
\* item
C21_NoWorkUntilDriven ==
    pipe.kind # "none" =>
        /\ pipe.phase = "built" => (pipe.pulled = 0 /\ pipe.calls = <<>>)
        /\ \A k \in 1..Len(pipe.stages), i \in 1..Len(pipe.source) : CallsOf(k, i) <= 1

\* a pipeline of two stages over two items that was driven to its end, each
\* function called on the first item
C21_Witness ==
    /\ pipe.kind # "none"
    /\ pipe.phase = "done"
    /\ Len(pipe.stages) = 2
    /\ Len(pipe.source) = 2
    /\ CallsOf(1, 1) = 1
    /\ CallsOf(2, 1) = 1

\* C22: an AsyncPipeline is strictly sequential: the consumer gets the items
\* in the order of the source for every chain of map, filter and filter_map
\* with synchronous or suspending functions, and item i+1 is not requested
\* from the source before every stage has finished its work on item i, so
\* at most one item is in flight at any time
C22_OneItemInFlight ==
    pipe.kind = "AsyncPipeline" =>
        /\ \A a, b \in 1..Len(pipe.out) : a < b => pipe.out[a].idx < pipe.out[b].idx
        /\ pipe.pulled - pipe.finished = Len(pipe.flight)
        /\ Len(pipe.flight) <= 1
        /\ pipe.flight # <<>> => pipe.flight[1].idx = pipe.pulled

\* an AsyncPipeline with a suspending function that gave the consumer two
\* items
C22_Witness ==
    /\ pipe.kind = "AsyncPipeline"
    /\ pipe.phase = "done"
    /\ \E k \in 1..Len(pipe.stages) : pipe.stages[k].iscoroutinefunction
    /\ Len(pipe.out) = 2
    /\ CallsOf(1, 2) = 1

\* the indexes of the Errs in the source of the pipeline
ErrsOfSource ==
    {i \in 1..Len(pipe.source) : pipe.source[i].kind = "Err"}

\* C23: AsyncPipeline.unwrap_as on a pipeline of Ok and Err: when every item
\* is Ok it returns Ok of the collection of the unwrapped values in order;
\* when an item is Err it returns a failure for the first Err in input
\* order, with no partial collection, and no item after that first Err is
\* requested from the source
C23_UnwrapFailsOnFirstErr ==
    last.op = "unwrap_as" =>
        IF ErrsOfSource = {}
        THEN last.res = Ok(PyList([i \in 1..Len(pipe.source) |-> pipe.source[i].value]))
        ELSE /\ last.res = Err("UnwrapError")
             /\ \A i \in ErrsOfSource : pipe.pulled <= i
             /\ pipe.pulled \in ErrsOfSource

\* unwrap_as met an Err and left the item after it in the source
C23_Witness ==
    /\ last.op = "unwrap_as"
    /\ last.res = Err("UnwrapError")
    /\ pipe.pulled >= 1
    /\ pipe.pulled < Len(pipe.source)

\* C31: pipelines are single-pass: once a Pipeline or an AsyncPipeline was
\* driven to exhaustion, driving it again, or driving a pipeline that map,
\* filter or filter_map derived from the same source, yields no item
\* (collect_as returns Nothing) and calls no function again; and an item
\* that one consumer took is never delivered to a later one
C31_SinglePass ==
    [][(pipe.kind # "none" /\ pipe.again /\ pipe'.kind # "none" /\ pipe'.again) =>
          /\ \A i \in 1..Len(pipe'.out) : pipe'.out[i].idx \notin pipe'.gone
          /\ pipe.exhausted =>
                /\ pipe'.calls = pipe.calls
                /\ pipe'.out = <<>>
                /\ last'.op = "collect_as" => last'.res = Nothing]_vars

\* a pipeline over two items that gave both to its consumer was driven
\* again through another stage with collect_as, which returned
C31_Witness ==
    /\ pipe.kind # "none"
    /\ pipe.again
    /\ pipe.phase = "done"
    /\ pipe.terminal = "collect_as"
    /\ pipe.exhausted
    /\ pipe.gone = {1, 2}
    /\ Len(pipe.stages) = 1
    /\ last.op = "collect_as"

----------------------------------------------------------------------------
(* the claims of the mark-tracked write and of the deletion, checked under *)
(* SpecTracker                                                             *)

\* C32: save_as_tracked(event), the storage not failing, leaves for event.id
\* a record that equals the event with tracked = true, creating it when
\* there was none, and returns Ok; a sync_event for the same id that follows
\* it keeps tracked = true
C32_MarkTrackedPersists ==
    /\ (last.op = "save_as_tracked" /\ last.f = "none") =>
          /\ IsOk(last.res)
          /\ Stored(events, last.id) =
                Something(to_dict([last.arg EXCEPT !.tracked = TRUE]))
    /\ (HealthySync /\ last.marked) =>
          /\ last.id \in DOMAIN events
          /\ events[last.id].tracked = TRUE

\* an event that was not stored was marked tracked, and then reconciled with
\* an incoming untracked event
C32_Witness ==
    /\ HealthySync /\ last.marked
    /\ last.arg.tracked = FALSE
    /\ IsOk(last.res)
    /\ events[last.id].tracked = TRUE

\* C34: POST /unwatch removes registry entries only after the remote stop
\* succeeded: when the stop request fails, the calendar-to-channel entry and
\* the channel-to-owner entry are left as they were and the request is
\* answered with an error; when the calendar has no calendar-to-channel
\* entry, nothing is deleted
C34_UnwatchStopsFirst ==
    HealthyUnwatch =>
        /\ (WasWatched /\ last.stop_fails) =>
              /\ redis = last.before
              /\ last.resp = "HTTPException"
        /\ ~WasWatched => redis = last.before
        /\ redis # last.before => ~last.stop_fails

\* C35: after delete_event(id) succeeds no record with that id is stored and
\* get_event(id) returns Ok(Nothing); deleting an id with no record succeeds
\* too and changes nothing; a sync_event for that id right after a successful
\* delete (storage healthy) persists the incoming event with tracked = false,
\* whatever the deleted record held, and returns Ok of it
C35_DeleteThenCreate ==
    [][/\ (last'.op = "delete_event" /\ IsOk(last'.res)) =>
            /\ last'.id \notin DOMAIN events'
            /\ get_event(events', last'.id, "none") = Ok(Nothing)
            /\ (last'.id \notin DOMAIN events => events' = events)
       /\ ( /\ last.op = "delete_event" /\ IsOk(last.res)
            /\ last'.op = "sync_event" /\ last'.id = last.id
            /\ last'.fl = "none" /\ last'.fw = "none"
            /\ last'.arg.tracked = FALSE ) =>
            /\ last'.id \in DOMAIN events'
            /\ SameButTracked(events'[last'.id], last'.arg)
            /\ events'[last'.id].tracked = FALSE
            /\ last'.res = Ok(last'.arg)]_vars

\* C36: the initial scan of POST /watch handles every listed event, once and
\* in list order (correlated, then upserted), whatever the notifier or the
\* upsert of another event answered; the calendar is subscribed and the
\* registry written only after the whole list was handled, and not at all
\* when listing failed
C36_ScanThenSubscribe ==
    [][last'.op = "watch" =>
          /\ IsOk(last'.listing) => last'.handled = last'.listing.value
          /\ ~IsOk(last'.listing) =>
                /\ last'.handled = <<>>
                /\ events' = events
                /\ redis' = redis
          /\ redis' # redis =>
                /\ IsOk(last'.listing)
                /\ last'.handled = last'.listing.value]_vars

----------------------------------------------------------------------------
(* the claim of the worker's retry loop, checked under SpecCelery          *)

\* the response was received and is ok
Succeeded(response) == response.kind = "Ok" /\ Response_ok(response)

\* C37: a run of fetch_disaster_event_updates sends at most 5 requests; no
\* request follows an ok response (nor an exception), the run is over as soon
\* as a response is ok, and it is over after the fifth response that is not
C37_AtMostFiveRequests ==
    /\ Len(worker.sent) <= 5
    /\ \A k \in 1..(Len(worker.sent) - 1) :
          worker.sent[k].kind = "Ok" /\ ~Response_ok(worker.sent[k])
    /\ (worker.sent # <<>> /\ Succeeded(worker.sent[Len(worker.sent)])) =>
          worker.phase = "done"
    /\ Len(worker.sent) = 5 => worker.phase # "running"
    /\ worker.phase = "running" => Len(worker.sent) = worker.i

\* the run gave up after five responses none of which was ok
C37_Witness ==
    /\ worker.phase = "done"
    /\ Len(worker.sent) = 5
    /\ \A k \in 1..5 : worker.sent[k].kind = "Ok" /\ ~Response_ok(worker.sent[k])

----------------------------------------------------------------------------
(* the claim of the scheduled check, checked under SpecCheck               *)

\* C33: an alert is delivered at most once per event while the event and
\* the hazards stay unchanged: after the notifier delivered the alert of an
\* event, a later POST /scheduled_check leaves the event out and sends
\* nothing for it
C33_AlertSentOnce ==
    last.op = "scheduled_check" => last.notified \cap last.earlier = {}

----------------------------------------------------------------------------
(* the claim of the schedule query, checked under SpecSchedule             *)

\* the stored events, as models, with the asked tracked value whose start
\* lies in [lo, hi], in the order of the store
StoredStartingIn(lo, hi) ==
    LET docs == docs_in_order(events,
                    {k \in DOMAIN events :
                        /\ events[k].start >= lo
                        /\ events[k].start <= hi
                        /\ events[k].tracked = last.tracked})
    IN  [i \in 1..Len(docs) |-> CalendarEvent_from_(docs[i]).value]

\* C24: list_events_scheduled_in(days) yields exactly the stored events whose
\* start lies in [now, now + days], both bounds inclusive (one that starts
\* exactly at now, later on the current day, or exactly at now + days is
\* yielded, one that starts before now or after now + days is not), in the
\* order of the store
C24_ScheduledWindow ==
    last.op = "list_events_scheduled_in" =>
        /\ IsOk(last.res)
        /\ last.res.value =
              StoredStartingIn(last.now, last.now + last.days * TicksPerDay)

----------------------------------------------------------------------------
(* the claims of the trackers' failures and effects                        *)

\* a call came back with a value: a Result or an Option, not an exception
Returned(res) ==
    \/ "kind" \in DOMAIN res /\ res.kind \in {"Ok", "Err"}
    \/ "opt" \in DOMAIN res /\ res.opt \in {"Something", "Nothing"}

\* C25: sync_event, save_as_tracked, delete_event and check_calendar_event
\* never raise: whatever the store does (the record is present, it is absent,
\* the lookup, the insert, the upsert or the query fails) they return a Result
\* or an Option and no exception reaches the caller
C25_TrackersNeverRaise ==
    last.op \in {"sync_event", "save_as_tracked", "delete_event",
                 "check_calendar_event"} => Returned(last.res)

\* C26: check_calendar_event and scan_active_disasters change nothing that is
\* stored: the calendar-event store and the hazard store are the same after
\* the call as before it, whether it yields Something or Nothing
C26_CorrelationWritesNothing ==
    [][last'.op \in {"check_calendar_event", "scan_active_disasters"} =>
          /\ events' = events
          /\ disasters' = disasters]_vars

C26_Witness ==
    /\ last.op = "check_calendar_event"
    /\ "opt" \in DOMAIN last.res
    /\ IsSomething(last.res)
    /\ DOMAIN disasters # {}

----------------------------------------------------------------------------
(* the claims of the registry's keys, checked under SpecKeys and Spec      *)

\* the operations of the components other than EventChannels
OtherComponents ==
    {"UserPreferences.create", "UserPreferences.pop",
     "ClientSession.create", "ClientSession.delete",
     "ServiceCredentialStorage.save", "ServiceCredentialStorage.delete",
     "WatchedCalendars.create", "WatchedCalendars.delete"}

\* C28: no operation of another component (preferences, sessions,
\* credentials, watched calendars) creates, overwrites or deletes the entry
\* kept under a channel id: the keys EventChannels addresses are touched by
\* EventChannels alone, whatever the inputs
C28_ChannelKeysExclusive ==
    [][last'.op \in OtherComponents =>
          \A ch \in ChannelIds :
              Stored(redis', <<"PREFERENCES:", ch>>) = Stored(redis, <<"PREFERENCES:", ch>>)]_vars

\* the registry is consistent: every watched calendar has a channel id whose
\* record is live and names that calendar, no second live record names it,
\* and every live channel record belongs to a watched calendar
Consistent(store) ==
    /\ \A k \in DOMAIN store : k[1] = "CALENDAR:" =>
          /\ store[k].py = "str"
          /\ <<"PREFERENCES:", store[k].val>> \in DOMAIN store
          /\ \A j \in DOMAIN store :
                (j[1] = "PREFERENCES:" /\ store[j].py = "hash"
                 /\ "calendar_id" \in DOMAIN store[j].val
                 /\ store[j].val.calendar_id = k[2]) <=> j[2] = store[k].val
    /\ \A j \in DOMAIN store : j[1] = "PREFERENCES:" =>
          /\ store[j].py = "hash"
          /\ "calendar_id" \in DOMAIN store[j].val
          /\ CalendarEntry(store, store[j].val.calendar_id, j[2])

\* C29: a completed POST /watch or POST /unwatch that met no storage failure,
\* the watch being for a calendar that was not yet watched, takes a
\* consistent registry to a consistent registry: each watched calendar maps
\* to one channel id, that channel has one live record naming the calendar,
\* and no channel record is orphaned
C29_RegistryStaysConsistent ==
    [][(/\ Consistent(redis)
        /\ last'.op \in {"watch", "unwatch"}
        /\ last'.f = "none"
        /\ last'.resp \in {"201", "204", "404", "None"}
        /\ last'.op = "watch" => <<"CALENDAR:", last'.calendar_id>> \notin DOMAIN redis)
       => Consistent(redis')]_vars

----------------------------------------------------------------------------
(* the claim of the hazards' active flag, checked under SpecCorrelator     *)

\* C30: the ingestion of the feed (from_eonet, then save_many) stores only
\* hazards whose active is true, whatever closed was in the feed (no key,
\* null, a closing date): no stored hazard has active = false
C30_StoredHazardsAreActive ==
    \A k \in DOMAIN disasters : disasters[k].active = TRUE

C30_Witness ==
    /\ last.op = "save_many"
    /\ IsOk(last.res)
    /\ last.closed = {"null", "date"}
    /\ DOMAIN disasters # {}

----------------------------------------------------------------------------
(* the claim of the reconciliation's interleavings, checked under SpecRace *)

\* C27: sync_event is a lookup and a later write with nothing held between
\* them: whatever other operation on the same id ran in between, the write
\* is the one the lookup chose and carries the tracked value the lookup saw,
\* so a tracked = true written in between is overwritten by the stale value,
\* and two sync_event calls that both saw the id absent both insert
C27_WriteFollowsStaleLookup ==
    (last.op = "sync_event" /\ IsOk(last.seen)) =>
        IF IsSomething(last.seen.value)
        THEN /\ last.path = "upsert"
             /\ IsOk(last.res) =>
                   events[last.id].tracked = last.seen.value.value.tracked
        ELSE last.path = "insert"

\* the lost update: the lookup saw tracked = false, tracked = true was stored
\* when the write was made, and the write put false back
C27_Witness ==
    /\ last.op = "sync_event"
    /\ IsOkSomething(last.seen)
    /\ ~last.seen.value.value.tracked
    /\ last.stored # Nothing
    /\ last.stored.value.tracked
    /\ IsOk(last.res)
    /\ ~events[last.id].tracked

Next == NextHandlers

Spec == Init /\ [][Next]_vars
====
